---- MODULE Spec2Model ----
(***************************************************************************)
(* A model of the vflag package: typed flag values (Value.Set), short and  *)
(* long flag descriptors and their translation to parser options, the      *)
(* FlagSet registry with its parse/dispatch loop, and the error-handling   *)
(* policy implemented by FlagSet.maybeHandleError.                         *)
(*                                                                         *)
(* Go strings are sequences of one-character strings; a Go byte is a       *)
(* one-character string, the zero byte being NUL.  Integers of every width *)
(* are kept as a sign and a magnitude written as a sequence of decimal     *)
(* digits, so that the 32 and 64 bit ranges are represented exactly.       *)
(***************************************************************************)
EXTENDS Integers, Sequences, FiniteSets, TLC

VARIABLES
    ShortFlags,         \* FlagSet.ShortFlags
    LongFlags,          \* FlagSet.LongFlags
    ErrorHandling,      \* FlagSet.ErrorHandling
    DisablePermute,     \* FlagSet.DisablePermute
    MinPositionalArgs,  \* FlagSet.MinPositionalArgs
    MaxPositionalArgs,  \* FlagSet.MaxPositionalArgs
    positionals,        \* FlagSet.positionals
    mem,                \* the caller's variables the values are bound to
    Stdout,             \* what has been written to FlagSet.Stdout
    Stderr,             \* what has been written to FlagSet.Stderr
    exitCalls,          \* the statuses FlagSet.Exit has been called with
    pc,                 \* position of the caller inside Parse
    call,               \* the Parse call in progress
    stage,              \* position of the caller in its registration sequence
    probe,              \* the last direct call of a method by the caller
    flags               \* FlagSet.flags of the revision with unified descriptors

vars == <<ShortFlags, LongFlags, ErrorHandling, MinPositionalArgs,
          MaxPositionalArgs, DisablePermute, positionals, mem, Stdout, Stderr,
          exitCalls, pc, call, stage, probe, flags>>

(***************************************************************************)
(* Bounds of the model.                                                    *)
(***************************************************************************)
MaxSets == 2

MaxArgs == 4

(***************************************************************************)
(* Strings and big naturals.                                               *)
(***************************************************************************)
NUL == "NUL"

\* the micro sign, which is no character of a string here
Micro == "micro"

Digits == <<"0", "1", "2", "3", "4", "5", "6", "7", "8", "9">>

IsDigit(c) == \E i \in 1..10 : Digits[i] = c

DigitVal(c) == (CHOOSE i \in 1..10 : Digits[i] = c) - 1

AllDigits(s) == \A i \in 1..Len(s) : IsDigit(s[i])

RECURSIVE ToMag(_)
ToMag(s) == IF s = <<>> THEN <<>> ELSE <<DigitVal(s[1])>> \o ToMag(Tail(s))

RECURSIVE Rev(_)
Rev(s) == IF s = <<>> THEN <<>> ELSE Append(Rev(Tail(s)), s[1])

\* a local variable: the value is computed once and the body uses it
With(x, Body(_)) == Body(x)

Front(s) == SubSeq(s, 1, Len(s) - 1)

RestOf(s) == IF s = <<>> THEN <<>> ELSE Tail(s)

HasPrefix(s, p) == Len(s) >= Len(p) /\ SubSeq(s, 1, Len(p)) = p

RECURSIVE StripZeros(_)
StripZeros(d) == IF d # <<>> /\ d[1] = 0 THEN StripZeros(Tail(d)) ELSE d

RECURSIVE StripTrailingZeros(_)
StripTrailingZeros(d) ==
    IF d # <<>> /\ d[Len(d)] = 0 THEN StripTrailingZeros(Front(d)) ELSE d

RECURSIVE LexLess(_, _)
LexLess(a, b) ==
    IF a = <<>> THEN FALSE
    ELSE IF a[1] # b[1] THEN a[1] < b[1]
    ELSE LexLess(Tail(a), Tail(b))

\* a < b for magnitudes without leading zeros
MagLess(a, b) == Len(a) < Len(b) \/ (Len(a) = Len(b) /\ LexLess(a, b))

RECURSIVE AddRev(_, _, _)
AddRev(a, b, c) ==
    IF a = <<>> /\ b = <<>> THEN (IF c = 0 THEN <<>> ELSE <<c>>)
    ELSE LET x == IF a = <<>> THEN 0 ELSE a[1]
             y == IF b = <<>> THEN 0 ELSE b[1]
             s == x + y + c
         IN <<s % 10>> \o AddRev(RestOf(a), RestOf(b), s \div 10)

MagAdd(a, b) == StripZeros(Rev(AddRev(Rev(a), Rev(b), 0)))

\* a * d for a small factor d, least significant digit first
RECURSIVE MulDigitRev(_, _, _)
MulDigitRev(a, d, c) ==
    IF a = <<>> THEN (IF c = 0 THEN <<>> ELSE <<c % 10>> \o MulDigitRev(a, d, c \div 10))
    ELSE LET s == a[1] * d + c
         IN <<s % 10>> \o MulDigitRev(Tail(a), d, s \div 10)

Zeros(k) == [i \in 1..k |-> 0]

\* a * (unit.c * 10^unit.k)
MagMul(a, unit) ==
    LET p == StripZeros(Rev(MulDigitRev(Rev(a), unit.c, 0)))
    IN IF p = <<>> THEN <<>> ELSE p \o Zeros(unit.k)

\* floor(a / 10^k)
MagShiftRight(a, k) == IF Len(a) <= k THEN <<>> ELSE SubSeq(a, 1, Len(a) - k)

MagZero == <<>>

Num(neg, mag) == [neg |-> neg /\ mag # <<>>, mag |-> mag]

(***************************************************************************)
(* Program constants: the limits of the integer widths.                    *)
(***************************************************************************)
IntSize == 64

MaxUint8 == <<2, 5, 5>>
MaxUint16 == <<6, 5, 5, 3, 5>>
MaxUint32 == <<4, 2, 9, 4, 9, 6, 7, 2, 9, 5>>
MaxUint64 == <<1, 8, 4, 4, 6, 7, 4, 4, 0, 7, 3, 7, 0, 9, 5, 5, 1, 6, 1, 5>>

MaxUint(bits) ==
    CASE bits = 8 -> MaxUint8
      [] bits = 16 -> MaxUint16
      [] bits = 32 -> MaxUint32
      [] bits = 64 -> MaxUint64

Cutoff8 == <<1, 2, 8>>
Cutoff16 == <<3, 2, 7, 6, 8>>
Cutoff32 == <<2, 1, 4, 7, 4, 8, 3, 6, 4, 8>>
Cutoff64 == <<9, 2, 2, 3, 3, 7, 2, 0, 3, 6, 8, 5, 4, 7, 7, 5, 8, 0, 8>>

\* 1 << (bits - 1)
Cutoff(bits) ==
    CASE bits = 8 -> Cutoff8
      [] bits = 16 -> Cutoff16
      [] bits = 32 -> Cutoff32
      [] bits = 64 -> Cutoff64

CutoffMinusOne(bits) ==
    CASE bits = 8 -> <<1, 2, 7>>
      [] bits = 16 -> <<3, 2, 7, 6, 7>>
      [] bits = 32 -> <<2, 1, 4, 7, 4, 8, 3, 6, 4, 7>>
      [] bits = 64 -> <<9, 2, 2, 3, 3, 7, 2, 0, 3, 6, 8, 5, 4, 7, 7, 5, 8, 0, 7>>

(***************************************************************************)
(* Errors.  nil is the error named "nil".                                  *)
(***************************************************************************)
Err(name, fn, input) == [name |-> name, func |-> fn, input |-> input]

Nil == Err("nil", "", <<>>)

ErrHelp == Err("help requested", "", <<>>)

ErrSyntax(fn, s) == Err("invalid syntax", fn, s)

ErrRange(fn, s) == Err("value out of range", fn, s)

(***************************************************************************)
(* strconv.ParseBool, ParseUint, ParseInt, ParseFloat; time.ParseDuration. *)
(* Each returns the pair of the Go function: a value and an error.         *)
(***************************************************************************)
BoolTrueLiterals ==
    { <<"1">>, <<"t">>, <<"T">>, <<"T", "R", "U", "E">>,
      <<"t", "r", "u", "e">>, <<"T", "r", "u", "e">> }

BoolFalseLiterals ==
    { <<"0">>, <<"f">>, <<"F">>, <<"F", "A", "L", "S", "E">>,
      <<"f", "a", "l", "s", "e">>, <<"F", "a", "l", "s", "e">> }

ParseBool(s) ==
    IF s \in BoolTrueLiterals THEN [val |-> TRUE, err |-> Nil]
    ELSE IF s \in BoolFalseLiterals THEN [val |-> FALSE, err |-> Nil]
    ELSE [val |-> FALSE, err |-> ErrSyntax("ParseBool", s)]

\* base 10: no sign, no underscore, at least one digit
ParseUint(s, bits) ==
    IF s = <<>> \/ ~AllDigits(s)
    THEN [val |-> Num(FALSE, MagZero), err |-> ErrSyntax("ParseUint", s)]
    ELSE With(StripZeros(ToMag(s)), LAMBDA m :
            IF MagLess(MaxUint(bits), m)
            THEN [val |-> Num(FALSE, MaxUint(bits)), err |-> ErrRange("ParseUint", s)]
            ELSE [val |-> Num(FALSE, m), err |-> Nil])

ParseInt(s, bits) ==
    IF s = <<>>
    THEN [val |-> Num(FALSE, MagZero), err |-> ErrSyntax("ParseInt", s)]
    ELSE LET neg == s[1] = "-"
             body == IF s[1] \in {"+", "-"} THEN Tail(s) ELSE s
         IN With(ParseUint(body, bits), LAMBDA un :
            IF un.err # Nil /\ un.err.name # ErrRange("ParseUint", s).name
            THEN [val |-> Num(FALSE, MagZero), err |-> ErrSyntax("ParseInt", s)]
            ELSE IF ~neg /\ ~MagLess(un.val.mag, Cutoff(bits))
            THEN [val |-> Num(FALSE, CutoffMinusOne(bits)), err |-> ErrRange("ParseInt", s)]
            ELSE IF neg /\ MagLess(Cutoff(bits), un.val.mag)
            THEN [val |-> Num(TRUE, Cutoff(bits)), err |-> ErrRange("ParseInt", s)]
            ELSE [val |-> Num(neg, un.val.mag), err |-> Nil])

\* The decimal forms "[+-]digits[.digits]": the model's strings hold no
\* exponent, hexadecimal, infinity or NaN spelling.
FloatZero == [neg |-> FALSE, ip |-> <<>>, fp |-> <<>>]

DotIndex(s) ==
    IF \E i \in 1..Len(s) : s[i] = "."
    THEN CHOOSE i \in 1..Len(s) : s[i] = "." /\ \A j \in 1..(i - 1) : s[j] # "."
    ELSE 0

ParseFloat(s) ==
    LET neg == s # <<>> /\ s[1] = "-"
        body == IF s # <<>> /\ s[1] \in {"+", "-"} THEN Tail(s) ELSE s
        dot == DotIndex(body)
        ip == IF dot = 0 THEN body ELSE SubSeq(body, 1, dot - 1)
        fp == IF dot = 0 THEN <<>> ELSE SubSeq(body, dot + 1, Len(body))
    IN IF Len(ip) + Len(fp) = 0 \/ ~AllDigits(ip) \/ ~AllDigits(fp)
       THEN [val |-> FloatZero, err |-> ErrSyntax("ParseFloat", s)]
       ELSE [val |-> [neg |-> neg, ip |-> StripZeros(ToMag(ip)),
                      fp |-> StripTrailingZeros(ToMag(fp))],
             err |-> Nil]

\* nanoseconds per unit (time.unitMap, ASCII spellings), as c * 10^k
UnitNs(u) ==
    CASE u = <<"n", "s">> -> [c |-> 1, k |-> 0]
      [] u \in {<<"u", "s">>, <<Micro, "s">>} -> [c |-> 1, k |-> 3]
      [] u = <<"m", "s">> -> [c |-> 1, k |-> 6]
      [] u = <<"s">> -> [c |-> 1, k |-> 9]
      [] u = <<"m">> -> [c |-> 6, k |-> 10]
      [] u = <<"h">> -> [c |-> 36, k |-> 11]
      [] OTHER -> [c |-> 0, k |-> 0]

\* the length of the longest prefix of s made of characters satisfying the
\* digit test (digits = TRUE) or of unit characters (digits = FALSE)
RECURSIVE SpanLen(_, _)
SpanLen(s, digits) ==
    IF s = <<>> THEN 0
    ELSE IF digits /\ IsDigit(s[1]) THEN 1 + SpanLen(Tail(s), digits)
    ELSE IF ~digits /\ ~IsDigit(s[1]) /\ s[1] # "." THEN 1 + SpanLen(Tail(s), digits)
    ELSE 0

DurationInvalid(orig) == Err("invalid duration", "ParseDuration", orig)

\* one group "[0-9]*(\.[0-9]*)?[a-z]+" of time.ParseDuration at the head of
\* s: its value in nanoseconds and what follows it
DurationGroup(s, orig) ==
    LET nInt == SpanLen(s, TRUE)
        v == StripZeros(ToMag(SubSeq(s, 1, nInt)))
        s1 == SubSeq(s, nInt + 1, Len(s))
        hasDot == s1 # <<>> /\ s1[1] = "."
        s2 == IF hasDot THEN Tail(s1) ELSE s1
        nFrac == IF hasDot THEN SpanLen(s2, TRUE) ELSE 0
        f == ToMag(SubSeq(s2, 1, nFrac))
        s3 == SubSeq(s2, nFrac + 1, Len(s2))
        nUnit == SpanLen(s3, FALSE)
        u == SubSeq(s3, 1, nUnit)
        unit == UnitNs(u)
        whole == MagMul(v, unit)
        frac == MagShiftRight(MagMul(StripZeros(f), unit), nFrac)
        vv == MagAdd(whole, frac)
        Fail(e) == [mag |-> <<>>, rest |-> <<>>, err |-> e]
    IN IF ~(s[1] = "." \/ IsDigit(s[1])) THEN Fail(DurationInvalid(orig))
       ELSE IF MagLess(Cutoff64, v) THEN Fail(DurationInvalid(orig))
       ELSE IF nInt = 0 /\ nFrac = 0 THEN Fail(DurationInvalid(orig))
       ELSE IF nUnit = 0
       THEN Fail(Err("missing unit in duration", "ParseDuration", orig))
       ELSE IF unit.c = 0
       THEN Fail(Err("unknown unit in duration", "ParseDuration", orig))
       ELSE IF MagLess(Cutoff64, whole) \/ MagLess(Cutoff64, vv)
       THEN Fail(DurationInvalid(orig))
       ELSE [mag |-> vv, rest |-> SubSeq(s3, nUnit + 1, Len(s3)), err |-> Nil]

\* the loop of time.ParseDuration over the groups; d is the magnitude
\* accumulated so far
RECURSIVE DurationGroups(_, _, _)
DurationGroups(s, d, orig) ==
    IF s = <<>> THEN [mag |-> d, err |-> Nil]
    ELSE With(DurationGroup(s, orig), LAMBDA g :
            IF g.err # Nil THEN [mag |-> <<>>, err |-> g.err]
            ELSE With(MagAdd(d, g.mag), LAMBDA dd :
                    IF MagLess(Cutoff64, dd)
                    THEN [mag |-> <<>>, err |-> DurationInvalid(orig)]
                    ELSE DurationGroups(g.rest, dd, orig)))

ParseDuration(s) ==
    LET neg == s # <<>> /\ s[1] = "-"
        body == IF s # <<>> /\ s[1] \in {"+", "-"} THEN Tail(s) ELSE s
    IN IF body = <<"0">> THEN [val |-> Num(FALSE, MagZero), err |-> Nil]
       ELSE IF body = <<>> THEN [val |-> Num(FALSE, MagZero), err |-> DurationInvalid(s)]
       ELSE With(DurationGroups(body, MagZero, s), LAMBDA r :
               IF r.err # Nil THEN [val |-> Num(FALSE, MagZero), err |-> r.err]
               ELSE IF ~neg /\ ~MagLess(r.mag, Cutoff64)
               THEN [val |-> Num(FALSE, MagZero), err |-> DurationInvalid(s)]
               ELSE [val |-> Num(neg, r.mag), err |-> Nil])

(***************************************************************************)
(* The raw strings handed to Value.Set.                                    *)
(***************************************************************************)
R_empty == <<>>

R_true == <<"t", "r", "u", "e">>

R_false == <<"f", "a", "l", "s", "e">>

R_TRUE == <<"T", "R", "U", "E">>

R_nope == <<"n", "o", "p", "e">>

R_hello == <<"h", "e", "l", "l", "o">>

R_0 == <<"0">>

R_1 == <<"1">>

R_7 == <<"7">>

R_12 == <<"1", "2">>

R_m1 == <<"-", "1">>

R_p7 == <<"+", "7">>

R_127 == <<"1", "2", "7">>

R_128 == <<"1", "2", "8">>

R_m128 == <<"-", "1", "2", "8">>

R_m129 == <<"-", "1", "2", "9">>

R_255 == <<"2", "5", "5">>

R_256 == <<"2", "5", "6">>

R_32767 == <<"3", "2", "7", "6", "7">>

R_32768 == <<"3", "2", "7", "6", "8">>

R_m32768 == <<"-", "3", "2", "7", "6", "8">>

R_m32769 == <<"-", "3", "2", "7", "6", "9">>

R_65535 == <<"6", "5", "5", "3", "5">>

R_65536 == <<"6", "5", "5", "3", "6">>

R_2147483647 == <<"2", "1", "4", "7", "4", "8", "3", "6", "4", "7">>

R_2147483648 == <<"2", "1", "4", "7", "4", "8", "3", "6", "4", "8">>

R_m2147483648 == <<"-", "2", "1", "4", "7", "4", "8", "3", "6", "4", "8">>

R_m2147483649 == <<"-", "2", "1", "4", "7", "4", "8", "3", "6", "4", "9">>

R_4294967295 == <<"4", "2", "9", "4", "9", "6", "7", "2", "9", "5">>

R_4294967296 == <<"4", "2", "9", "4", "9", "6", "7", "2", "9", "6">>

R_9223372036854775807 == <<"9", "2", "2", "3", "3", "7", "2", "0", "3", "6", "8", "5", "4", "7", "7", "5", "8", "0", "7">>

R_9223372036854775808 == <<"9", "2", "2", "3", "3", "7", "2", "0", "3", "6", "8", "5", "4", "7", "7", "5", "8", "0", "8">>

R_m9223372036854775808 == <<"-", "9", "2", "2", "3", "3", "7", "2", "0", "3", "6", "8", "5", "4", "7", "7", "5", "8", "0", "8">>

R_m9223372036854775809 == <<"-", "9", "2", "2", "3", "3", "7", "2", "0", "3", "6", "8", "5", "4", "7", "7", "5", "8", "0", "9">>

R_18446744073709551615 == <<"1", "8", "4", "4", "6", "7", "4", "4", "0", "7", "3", "7", "0", "9", "5", "5", "1", "6", "1", "5">>

R_18446744073709551616 == <<"1", "8", "4", "4", "6", "7", "4", "4", "0", "7", "3", "7", "0", "9", "5", "5", "1", "6", "1", "6">>

R_1p25 == <<"1", ".", "2", "5">>

R_3s == <<"3", "s">>

R_m3s == <<"-", "3", "s">>

R_1m == <<"1", "m">>

R_1h30m == <<"1", "h", "3", "0", "m">>

R_1p5s == <<"1", ".", "5", "s">>

R_3x == <<"3", "x">>

R_2562047h == <<"2", "5", "6", "2", "0", "4", "7", "h">>

R_2562048h == <<"2", "5", "6", "2", "0", "4", "8", "h">>

RawUniverse ==
    { R_empty, R_true, R_false, R_TRUE, R_nope, R_hello, R_0, R_1, R_7, R_12,
      R_m1, R_p7, R_127, R_128, R_m128, R_m129, R_255, R_256, R_32767,
      R_32768, R_m32768, R_m32769, R_65535, R_65536, R_2147483647,
      R_2147483648, R_m2147483648, R_m2147483649, R_4294967295,
      R_4294967296, R_9223372036854775807, R_9223372036854775808,
      R_m9223372036854775808, R_m9223372036854775809,
      R_18446744073709551615, R_18446744073709551616, R_1p25, R_3s, R_m3s,
      R_1m, R_1h30m, R_1p5s, R_3x, R_2562047h, R_2562048h }

(***************************************************************************)
(* Values.  A Value is its concrete type and the variable it points to;    *)
(* Set returns the error and the memory after the call.                    *)
(***************************************************************************)
ValueKinds ==
    { "ValueAutoHelp", "ValueBool", "ValueDuration", "ValueFloat64",
      "ValueInt", "ValueInt8", "ValueInt16", "ValueInt32", "ValueInt64",
      "ValueString", "ValueStringSlice", "ValueUint", "ValueUint8",
      "ValueUint16", "ValueUint32", "ValueUInt64" }

Value(kind, vp) == [kind |-> kind, vp |-> vp]

SetResult(err, m) == [err |-> err, mem |-> m]

ValueAutoHelpSet(v, value, m) ==
    LET value1 == IF value = <<>> THEN R_true ELSE value
        r == ParseBool(value1)
    IN SetResult(r.err, m)

ValueBoolSet(v, value, m) ==
    With(ParseBool(IF value = <<>> THEN R_true ELSE value), LAMBDA r :
        IF r.err # Nil THEN SetResult(r.err, m)
        ELSE SetResult(Nil, [m EXCEPT ![v.vp] = r.val]))

ValueDurationSet(v, value, m) ==
    With(ParseDuration(value), LAMBDA r :
        IF r.err # Nil THEN SetResult(r.err, m)
        ELSE SetResult(Nil, [m EXCEPT ![v.vp] = r.val]))

ValueFloat64Set(v, value, m) ==
    With(ParseFloat(value), LAMBDA r :
        IF r.err # Nil THEN SetResult(r.err, m)
        ELSE SetResult(Nil, [m EXCEPT ![v.vp] = r.val]))

ValueIntSet(v, value, m) ==
    With(ParseInt(value, IntSize), LAMBDA r :
        IF r.err # Nil THEN SetResult(r.err, m)
        ELSE SetResult(Nil, [m EXCEPT ![v.vp] = r.val]))

ValueInt8SetEager(v, value, m) ==
    With(ParseInt(value, 8), LAMBDA r :
        SetResult(r.err, [m EXCEPT ![v.vp] = r.val]))

ValueInt8Set(v, value, m) ==
    With(ParseInt(value, 8), LAMBDA r :
        IF r.err # Nil THEN SetResult(r.err, m)
        ELSE SetResult(Nil, [m EXCEPT ![v.vp] = r.val]))

ValueInt16Set(v, value, m) ==
    With(ParseInt(value, 16), LAMBDA r :
        IF r.err # Nil THEN SetResult(r.err, m)
        ELSE SetResult(Nil, [m EXCEPT ![v.vp] = r.val]))

ValueInt32Set(v, value, m) ==
    With(ParseInt(value, 32), LAMBDA r :
        IF r.err # Nil THEN SetResult(r.err, m)
        ELSE SetResult(Nil, [m EXCEPT ![v.vp] = r.val]))

ValueInt64Set(v, value, m) ==
    With(ParseInt(value, 64), LAMBDA r :
        IF r.err # Nil THEN SetResult(r.err, m)
        ELSE SetResult(Nil, [m EXCEPT ![v.vp] = r.val]))

\* ValueString.Set that adds to the text instead of replacing it
ValueStringSetConcat(v, value, m) ==
    SetResult(Nil, [m EXCEPT ![v.vp] = m[v.vp] \o value])

ValueStringSet(v, value, m) == SetResult(Nil, [m EXCEPT ![v.vp] = value])

\* ValueStringSlice.Set that replaces the list
ValueStringSliceSetReplace(v, value, m) ==
    SetResult(Nil, [m EXCEPT ![v.vp] = <<value>>])

ValueStringSliceSet(v, value, m) ==
    SetResult(Nil, [m EXCEPT ![v.vp] = Append(m[v.vp], value)])

ValueUintSet(v, value, m) ==
    With(ParseUint(value, IntSize), LAMBDA r :
        IF r.err # Nil THEN SetResult(r.err, m)
        ELSE SetResult(Nil, [m EXCEPT ![v.vp] = r.val]))

ValueUint8Set(v, value, m) ==
    With(ParseUint(value, 8), LAMBDA r :
        IF r.err # Nil THEN SetResult(r.err, m)
        ELSE SetResult(Nil, [m EXCEPT ![v.vp] = r.val]))

ValueUint16Set(v, value, m) ==
    With(ParseUint(value, 16), LAMBDA r :
        IF r.err # Nil THEN SetResult(r.err, m)
        ELSE SetResult(Nil, [m EXCEPT ![v.vp] = r.val]))

ValueUint32Set(v, value, m) ==
    With(ParseUint(value, 32), LAMBDA r :
        IF r.err # Nil THEN SetResult(r.err, m)
        ELSE SetResult(Nil, [m EXCEPT ![v.vp] = r.val]))

ValueUInt64Set(v, value, m) ==
    With(ParseUint(value, 64), LAMBDA r :
        IF r.err # Nil THEN SetResult(r.err, m)
        ELSE SetResult(Nil, [m EXCEPT ![v.vp] = r.val]))

\* the dynamic dispatch of the interface method Value.Set
ValueSet(v, value, m) ==
    CASE v.kind = "ValueAutoHelp" -> ValueAutoHelpSet(v, value, m)
      [] v.kind = "ValueBool" -> ValueBoolSet(v, value, m)
      [] v.kind = "ValueDuration" -> ValueDurationSet(v, value, m)
      [] v.kind = "ValueFloat64" -> ValueFloat64Set(v, value, m)
      [] v.kind = "ValueInt" -> ValueIntSet(v, value, m)
      [] v.kind = "ValueInt8" -> ValueInt8Set(v, value, m)
      [] v.kind = "ValueInt16" -> ValueInt16Set(v, value, m)
      [] v.kind = "ValueInt32" -> ValueInt32Set(v, value, m)
      [] v.kind = "ValueInt64" -> ValueInt64Set(v, value, m)
      [] v.kind = "ValueString" -> ValueStringSet(v, value, m)
      [] v.kind = "ValueStringSlice" -> ValueStringSliceSet(v, value, m)
      [] v.kind = "ValueUint" -> ValueUintSet(v, value, m)
      [] v.kind = "ValueUint8" -> ValueUint8Set(v, value, m)
      [] v.kind = "ValueUint16" -> ValueUint16Set(v, value, m)
      [] v.kind = "ValueUint32" -> ValueUint32Set(v, value, m)
      [] v.kind = "ValueUInt64" -> ValueUInt64Set(v, value, m)

\* the Go zero value of the variable a Value of the kind points to
ZeroOf(kind) ==
    CASE kind \in {"ValueAutoHelp", "ValueBool"} -> FALSE
      [] kind = "ValueFloat64" -> FloatZero
      [] kind = "ValueString" -> <<>>
      [] kind = "ValueStringSlice" -> <<>>
      [] OTHER -> Num(FALSE, MagZero)

\* strconv.FormatBool
FormatBool(b) == IF b THEN <<"t", "r", "u", "e">> ELSE <<"f", "a", "l", "s", "e">>

\* strconv.FormatInt in base 10
FormatInt(n) ==
    IF n.mag = <<>> THEN <<"0">>
    ELSE (IF n.neg THEN <<"-">> ELSE <<>>) \o [i \in 1..Len(n.mag) |-> Digits[n.mag[i] + 1]]

\* strings.Join
RECURSIVE Join(_, _)
Join(elems, sep) ==
    IF elems = <<>> THEN <<>>
    ELSE IF Len(elems) = 1 THEN elems[1]
    ELSE elems[1] \o sep \o Join(Tail(elems), sep)

\* a / d and a % d for a small divisor d, by long division
RECURSIVE DivSmallLoop(_, _, _, _)
DivSmallLoop(a, d, r, q) ==
    IF a = <<>> THEN [q |-> StripZeros(q), r |-> r]
    ELSE DivSmallLoop(Tail(a), d, (r * 10 + a[1]) % d,
                      Append(q, (r * 10 + a[1]) \div d))

DivSmall(a, d) == DivSmallLoop(a, d, 0, <<>>)

\* the decimal digits of a magnitude, "0" for zero
FormatMag(mag) ==
    IF mag = <<>> THEN <<"0">> ELSE [i \in 1..Len(mag) |-> Digits[mag[i] + 1]]

\* the decimal digits of a number below one hundred
FormatSmall(n) ==
    IF n < 10 THEN <<Digits[n + 1]>>
    ELSE <<Digits[(n \div 10) + 1], Digits[(n % 10) + 1]>>

\* time.Duration.fmtFrac: the integer part of mag / 10^prec and the text of
\* the fraction, without its trailing zeros
FmtFrac(mag, prec) ==
    LET padded == Zeros(prec - Len(mag)) \o mag
        digits == StripTrailingZeros(SubSeq(padded, Len(padded) - prec + 1, Len(padded)))
    IN [int |-> MagShiftRight(mag, prec),
        text |-> IF digits = <<>> THEN <<>> ELSE <<".">> \o FormatMag(digits)]

\* time.Duration.String of a magnitude of at least one second
FormatSeconds(mag) ==
    LET f == FmtFrac(mag, 9)
        s == DivSmall(f.int, 60)
        m == DivSmall(s.q, 60)
        seconds == FormatSmall(s.r) \o f.text \o <<"s">>
    IN IF s.q = <<>> THEN seconds
       ELSE IF m.q = <<>> THEN FormatSmall(m.r) \o <<"m">> \o seconds
       ELSE FormatMag(m.q) \o <<"h">> \o FormatSmall(m.r) \o <<"m">> \o seconds

\* time.Duration.String of a magnitude below one second
FormatSubSecond(mag) ==
    IF Len(mag) <= 3 THEN FormatMag(mag) \o <<"n", "s">>
    ELSE IF Len(mag) <= 6
    THEN FormatMag(FmtFrac(mag, 3).int) \o FmtFrac(mag, 3).text \o <<Micro, "s">>
    ELSE FormatMag(FmtFrac(mag, 6).int) \o FmtFrac(mag, 6).text \o <<"m", "s">>

\* time.Duration.String
FormatDuration(n) ==
    IF n.mag = <<>> THEN <<"0", "s">>
    ELSE (IF n.neg THEN <<"-">> ELSE <<>>) \o
         (IF Len(n.mag) <= 9 THEN FormatSubSecond(n.mag) ELSE FormatSeconds(n.mag))

\* the interface method Value.String: the canonical text of the variable
String(v, m) ==
    CASE v.kind = "ValueAutoHelp" -> <<"f", "a", "l", "s", "e">>
      [] v.kind = "ValueBool" -> FormatBool(m[v.vp])
      [] v.kind = "ValueDuration" -> FormatDuration(m[v.vp])
      [] v.kind \in {"ValueInt", "ValueInt8", "ValueInt16", "ValueInt32",
                     "ValueInt64", "ValueUint", "ValueUint8", "ValueUint16",
                     "ValueUint32", "ValueUInt64"} -> FormatInt(m[v.vp])
      [] v.kind = "ValueString" -> m[v.vp]
      [] v.kind = "ValueStringSlice" -> Join(m[v.vp], <<",">>)

(***************************************************************************)
(* Flag descriptors and their translation into parser options.             *)
(***************************************************************************)
ShortFlag(description, argumentName, makeOption, name, prefix, value) ==
    [Description |-> description, ArgumentName |-> argumentName,
     DefaultValue |-> <<>>, MakeOption |-> makeOption, Name |-> name,
     Prefix |-> prefix, Value |-> value]

LongFlag(description, argumentName, defaultValue, makeOption, name, prefix, value) ==
    [Description |-> description, ArgumentName |-> argumentName,
     DefaultValue |-> defaultValue, MakeOption |-> makeOption, Name |-> name,
     Prefix |-> prefix, Value |-> value]

Option(type, prefix, name, defaultValue) ==
    [Type |-> type, Prefix |-> prefix, Name |-> name, DefaultValue |-> defaultValue]

\* what a translation yields when its runtimex.Assert fails
AssertionFailed == Option("panic", <<>>, <<>>, <<>>)

ShortFlagMakeOptionAutoHelpGroupable(fx) ==
    IF ~(fx.Prefix # <<>> /\ fx.Name # NUL) THEN AssertionFailed
    ELSE Option("OptionTypeGroupableArgumentNone", fx.Prefix, <<fx.Name>>, <<>>)

ShortFlagMakeOptionAutoHelp(fx) ==
    IF ~(fx.Prefix # <<>> /\ fx.Name # NUL) THEN AssertionFailed
    ELSE Option("OptionTypeEarlyArgumentNone", fx.Prefix, <<fx.Name>>, <<>>)

ShortFlagMakeOptionBool(fx) ==
    IF ~(fx.Prefix # <<>> /\ fx.Name # NUL) THEN AssertionFailed
    ELSE Option("OptionTypeGroupableArgumentNone", fx.Prefix, <<fx.Name>>, <<>>)

ShortFlagMakeOptionWithValueNoArgument(fx) ==
    IF ~(fx.Prefix # <<>> /\ fx.Name # NUL) THEN AssertionFailed
    ELSE Option("OptionTypeGroupableArgumentNone", fx.Prefix, <<fx.Name>>, <<>>)

ShortFlagMakeOptionWithValue(fx) ==
    IF ~(fx.Prefix # <<>> /\ fx.Name # NUL) THEN AssertionFailed
    ELSE Option("OptionTypeGroupableArgumentRequired", fx.Prefix, <<fx.Name>>, <<>>)

LongFlagMakeOptionAutoHelp(fx) ==
    IF ~(fx.Prefix # <<>> /\ fx.Name # <<>>) THEN AssertionFailed
    ELSE Option("OptionTypeEarlyArgumentNone", fx.Prefix, fx.Name, <<>>)

LongFlagMakeOptionBoolNoDefault(fx) ==
    IF ~(fx.Prefix # <<>> /\ fx.Name # <<>>) THEN AssertionFailed
    ELSE Option("OptionTypeStandaloneArgumentOptional", fx.Prefix, fx.Name, <<>>)

LongFlagMakeOptionWithOptionalValueRequired(fx) ==
    IF ~(fx.Prefix # <<>> /\ fx.Name # <<>>) THEN AssertionFailed
    ELSE Option("OptionTypeStandaloneArgumentRequired", fx.Prefix, fx.Name, <<>>)

LongFlagMakeOptionWithOptionalValueUnnamed(fx) ==
    IF ~(fx.Prefix # <<>>) THEN AssertionFailed
    ELSE Option("OptionTypeStandaloneArgumentOptional", fx.Prefix, fx.Name, fx.DefaultValue)

LongFlagMakeOptionBool(fx) ==
    IF ~(fx.Prefix # <<>> /\ fx.Name # <<>>) THEN AssertionFailed
    ELSE Option("OptionTypeStandaloneArgumentOptional", fx.Prefix, fx.Name, R_true)

LongFlagMakeOptionWithRequiredValue(fx) ==
    IF ~(fx.Prefix # <<>> /\ fx.Name # <<>>) THEN AssertionFailed
    ELSE Option("OptionTypeStandaloneArgumentRequired", fx.Prefix, fx.Name, <<>>)

LongFlagMakeOptionWithOptionalValue(fx) ==
    IF ~(fx.Prefix # <<>> /\ fx.Name # <<>>) THEN AssertionFailed
    ELSE Option("OptionTypeStandaloneArgumentOptional", fx.Prefix, fx.Name, fx.DefaultValue)

\* the call fx.MakeOption(fx) through the function stored in the descriptor
MakeOption(fx) ==
    CASE fx.MakeOption = "ShortFlagMakeOptionAutoHelp" -> ShortFlagMakeOptionAutoHelp(fx)
      [] fx.MakeOption = "ShortFlagMakeOptionBool" -> ShortFlagMakeOptionBool(fx)
      [] fx.MakeOption = "ShortFlagMakeOptionWithValue" -> ShortFlagMakeOptionWithValue(fx)
      [] fx.MakeOption = "LongFlagMakeOptionAutoHelp" -> LongFlagMakeOptionAutoHelp(fx)
      [] fx.MakeOption = "LongFlagMakeOptionBool" -> LongFlagMakeOptionBool(fx)
      [] fx.MakeOption = "LongFlagMakeOptionWithRequiredValue" ->
            LongFlagMakeOptionWithRequiredValue(fx)
      [] fx.MakeOption = "LongFlagMakeOptionWithOptionalValue" ->
            LongFlagMakeOptionWithOptionalValue(fx)

DefaultShortPrefix == <<"-">>

DefaultLongPrefix == <<"-", "-">>

NewShortFlagAutoHelp(value, name, helpText) ==
    ShortFlag(helpText, <<>>, "ShortFlagMakeOptionAutoHelp", name, DefaultShortPrefix, value)

NewShortFlagBool(value, name, helpText) ==
    ShortFlag(helpText, <<>>, "ShortFlagMakeOptionBool", name, DefaultShortPrefix, value)

NewShortFlagInt8(value, name, helpText) ==
    ShortFlag(helpText, <<" ", "I", "N", "T", "8">>, "ShortFlagMakeOptionWithValue",
              name, DefaultShortPrefix, value)

NewShortFlagString(value, name, helpText) ==
    ShortFlag(helpText, <<" ", "S", "T", "R", "I", "N", "G">>,
              "ShortFlagMakeOptionWithValue", name, DefaultShortPrefix, value)

NewLongFlagAutoHelp(value, name, helpText) ==
    LongFlag(helpText, <<>>, <<>>, "LongFlagMakeOptionAutoHelp", name,
             DefaultLongPrefix, value)

NewLongFlagBool(value, name, helpText) ==
    LongFlag(helpText, <<"[", "=", "t", "r", "u", "e", "|", "f", "a", "l", "s", "e", "]">>,
             <<>>, "LongFlagMakeOptionBool", name, DefaultLongPrefix, value)

NewLongFlagInt8(value, name, helpText) ==
    LongFlag(helpText, <<" ", "I", "N", "T", "8">>, <<>>,
             "LongFlagMakeOptionWithRequiredValue", name, DefaultLongPrefix, value)

NewLongFlagString(value, name, helpText) ==
    LongFlag(helpText, <<" ", "S", "T", "R", "I", "N", "G">>, <<>>,
             "LongFlagMakeOptionWithRequiredValue", name, DefaultLongPrefix, value)

(***************************************************************************)
(* The tokenizer (flagparser.Parser.Parse), an external collaborator       *)
(* modelled from its boundary contract.  Its results are option matches    *)
(* and positional arguments; with or without permutation, option matches   *)
(* precede the positional arguments in the result.                         *)
(***************************************************************************)
OptionsArgumentsSeparator == <<"-", "-">>

ValueOption(option, value) == [kind |-> "ValueOption", Option |-> option, Value |-> value]

ValuePositionalArgument(value) ==
    [kind |-> "ValuePositionalArgument", Option |-> Option("", <<>>, <<>>, <<>>),
     Value |-> value]

ErrUnknownOption(arg) == Err("unknown option", "flagparser", arg)

ErrOptionRequiresArgument(arg) == Err("option requires an argument", "flagparser", arg)

ErrOptionRequiresNoArgument(arg) == Err("option requires no argument", "flagparser", arg)

\* "expected at least <min>, got <got>", both below ten in the model
ErrTooFewPositionalArguments(min, got) ==
    Err("too few positional arguments", "flagparser", <<Digits[min + 1], Digits[got + 1]>>)

ErrTooManyPositionalArguments(max, got) ==
    Err("too many positional arguments", "flagparser", <<Digits[max + 1], Digits[got + 1]>>)

IsGroupable(o) ==
    o.Type \in {"OptionTypeGroupableArgumentNone", "OptionTypeGroupableArgumentRequired"}

IsStandalone(o) ==
    o.Type \in {"OptionTypeEarlyArgumentNone", "OptionTypeStandaloneArgumentOptional",
                "OptionTypeStandaloneArgumentRequired"}

\* the first index at which the sequence of booleans holds TRUE; 0 when
\* there is none
FirstIndex(tests) ==
    IF \E i \in 1..Len(tests) : tests[i]
    THEN CHOOSE i \in 1..Len(tests) : tests[i] /\ \A j \in 1..(i - 1) : ~tests[j]
    ELSE 0

IndexOfChar(s, c) ==
    IF \E i \in 1..Len(s) : s[i] = c
    THEN CHOOSE i \in 1..Len(s) : s[i] = c /\ \A j \in 1..(i - 1) : s[j] # c
    ELSE 0

\* the scanner: the index of the separator among the arguments, 0 if absent
SeparatorIndex(args, sep) == IndexOfChar(args, sep)

\* the longest option prefix the argument starts with and is longer than
ScanPrefix(options, arg) ==
    LET ps == {options[i].Prefix : i \in 1..Len(options)}
        ok == {p \in ps : HasPrefix(arg, p) /\ Len(arg) > Len(p)}
    IN IF ok = {} THEN <<>>
       ELSE CHOOSE p \in ok : \A q \in ok : Len(q) <= Len(p)

IsOptionToken(options, args, sep, i) ==
    /\ (SeparatorIndex(args, sep) = 0 \/ i < SeparatorIndex(args, sep))
    /\ ScanPrefix(options, args[i]) # <<>>

\* the early scan: the first option token that spells an early option
EarlyMatch(options, args, sep) ==
    LET Hit(i) ==
            /\ IsOptionToken(options, args, sep, i)
            /\ \E k \in 1..Len(options) :
                   /\ options[k].Type = "OptionTypeEarlyArgumentNone"
                   /\ options[k].Prefix \o options[k].Name = args[i]
        hits == {i \in 1..Len(args) : Hit(i)}
    IN IF hits = {} THEN <<>>
       ELSE LET i == CHOOSE h \in hits : \A g \in hits : h <= g
                k == FirstIndex([n \in 1..Len(options) |->
                        /\ options[n].Type = "OptionTypeEarlyArgumentNone"
                        /\ options[n].Prefix \o options[n].Name = args[i]])
            IN <<ValueOption(options[k], <<>>)>>

\* the characters of a cluster of groupable options behind one prefix;
\* yields the matches and how many arguments were consumed
RECURSIVE ParseCluster(_, _, _, _, _, _)
ParseCluster(options, prefix, chars, args, i, acc) ==
    IF chars = <<>> THEN [err |-> Nil, values |-> acc, next |-> i + 1]
    ELSE
      LET k == FirstIndex([n \in 1..Len(options) |->
                  /\ IsGroupable(options[n])
                  /\ options[n].Prefix = prefix
                  /\ options[n].Name = <<chars[1]>>])
      IN IF k = 0 THEN [err |-> ErrUnknownOption(prefix \o <<chars[1]>>),
                        values |-> <<>>, next |-> i]
         ELSE IF options[k].Type = "OptionTypeGroupableArgumentNone"
         THEN ParseCluster(options, prefix, Tail(chars), args, i,
                           Append(acc, ValueOption(options[k], <<>>)))
         ELSE IF Tail(chars) # <<>>
         THEN [err |-> Nil, next |-> i + 1,
               values |-> Append(acc, ValueOption(options[k], Tail(chars)))]
         ELSE IF i < Len(args)
         THEN [err |-> Nil, next |-> i + 2,
               values |-> Append(acc, ValueOption(options[k], args[i + 1]))]
         ELSE [err |-> ErrOptionRequiresArgument(prefix \o <<chars[1]>>),
               values |-> <<>>, next |-> i]

\* one option token: a standalone option, with "=value" or not, or a cluster
ParseOptionToken(options, args, i) ==
    LET prefix == ScanPrefix(options, args[i])
        body == SubSeq(args[i], Len(prefix) + 1, Len(args[i]))
        eq == IndexOfChar(body, "=")
        name == IF eq = 0 THEN body ELSE SubSeq(body, 1, eq - 1)
        value == IF eq = 0 THEN <<>> ELSE SubSeq(body, eq + 1, Len(body))
        k == FirstIndex([n \in 1..Len(options) |->
                /\ IsStandalone(options[n])
                /\ options[n].Prefix = prefix
                /\ options[n].Name = name])
    IN IF k # 0
       THEN CASE options[k].Type = "OptionTypeEarlyArgumentNone" ->
                   IF eq # 0
                   THEN [err |-> ErrOptionRequiresNoArgument(prefix \o name),
                         values |-> <<>>, next |-> i]
                   ELSE [err |-> Nil, next |-> i + 1,
                         values |-> <<ValueOption(options[k], <<>>)>>]
              [] options[k].Type = "OptionTypeStandaloneArgumentOptional" ->
                   [err |-> Nil, next |-> i + 1,
                    values |-> <<ValueOption(options[k],
                                    IF eq # 0 THEN value ELSE options[k].DefaultValue)>>]
              [] options[k].Type = "OptionTypeStandaloneArgumentRequired" ->
                   IF eq # 0
                   THEN [err |-> Nil, next |-> i + 1,
                         values |-> <<ValueOption(options[k], value)>>]
                   ELSE IF i < Len(args)
                   THEN [err |-> Nil, next |-> i + 2,
                         values |-> <<ValueOption(options[k], args[i + 1])>>]
                   ELSE [err |-> ErrOptionRequiresArgument(prefix \o name),
                         values |-> <<>>, next |-> i]
       ELSE IF \E j \in 1..Len(options) : IsGroupable(options[j]) /\ options[j].Prefix = prefix
       THEN ParseCluster(options, prefix, body, args, i, <<>>)
       ELSE [err |-> ErrUnknownOption(args[i]), values |-> <<>>, next |-> i]

RECURSIVE ParseLoop(_, _, _, _, _, _, _)
ParseLoop(options, args, sep, disablePermute, i, opts, pos) ==
    IF i > Len(args) THEN [err |-> Nil, options |-> opts, positionals |-> pos]
    ELSE IF i = SeparatorIndex(args, sep)
    THEN [err |-> Nil, options |-> opts,
          positionals |-> pos \o SubSeq(args, i + 1, Len(args))]
    ELSE IF ~IsOptionToken(options, args, sep, i)
    THEN IF disablePermute
         THEN [err |-> Nil, options |-> opts,
               positionals |-> pos \o
                   SelectSeq(SubSeq(args, i, Len(args)), LAMBDA a : a # sep)]
         ELSE ParseLoop(options, args, sep, disablePermute, i + 1, opts, Append(pos, args[i]))
    ELSE With(ParseOptionToken(options, args, i), LAMBDA r :
            IF r.err # Nil THEN [err |-> r.err, options |-> <<>>, positionals |-> <<>>]
            ELSE ParseLoop(options, args, sep, disablePermute, r.next,
                           opts \o r.values, pos))

ParserParse(options, minArgs, maxArgs, sep, disablePermute, args) ==
    With(EarlyMatch(options, args, sep), LAMBDA early :
    IF early # <<>> THEN [err |-> Nil, values |-> early]
    ELSE With(ParseLoop(options, args, sep, disablePermute, 1, <<>>, <<>>), LAMBDA r :
         LET n == Len(r.positionals)
         IN IF r.err # Nil THEN [err |-> r.err, values |-> <<>>]
            ELSE IF n < minArgs
            THEN [err |-> ErrTooFewPositionalArguments(minArgs, n), values |-> <<>>]
            ELSE IF n > maxArgs
            THEN [err |-> ErrTooManyPositionalArguments(maxArgs, n), values |-> <<>>]
            ELSE [err |-> Nil,
                  values |-> r.options \o
                      [j \in 1..n |-> ValuePositionalArgument(r.positionals[j])]]))

(***************************************************************************)
(* The FlagSet: construction, registration, Parse.                         *)
(***************************************************************************)
ContinueOnError == "ContinueOnError"

ExitOnError == "ExitOnError"

PanicOnError == "PanicOnError"

ProgramName == <<"p", "r", "o", "g">>

\* the variables of the caller and the zero values they start with
Variables == {"n1", "b1", "b2", "s1", "s2"}

\* what the caller's variables hold before Parse: zero values, and for "s2"
\* a default supplied by the caller
InitialMem ==
    [vp \in Variables |->
        CASE vp \in {"b1", "b2"} -> FALSE
          [] vp = "s1" -> <<>>
          [] vp = "s2" -> <<"d">>
          [] OTHER -> Num(FALSE, MagZero)]

\* the bookkeeping of one Parse call: its arguments, what the tokenizer
\* returned, how many results the loop consumed, the Set calls it made, the
\* outcome of parse, what Parse returned or panicked with, the status handed
\* to Exit and what Exit did
NoCall ==
    [args |-> <<>>, tokenized |-> FALSE, results |-> <<>>, done |-> 0,
     sets |-> <<>>, err |-> Nil, ret |-> Nil, panic |-> Nil, status |-> 0,
     exit |-> ""]

NoProbe == [value |-> Value("ValueBool", "x"), raw |-> <<>>, err |-> Nil,
            before |-> InitialMem, n |-> 0]

\* NewFlagSet(progname, handling)
NewFlagSet(handling) ==
    /\ DisablePermute = FALSE
    /\ ErrorHandling = handling
    /\ LongFlags = <<>>
    /\ MaxPositionalArgs = 0
    /\ MinPositionalArgs = 0
    /\ ShortFlags = <<>>
    /\ Stderr = <<>>
    /\ Stdout = <<>>
    /\ flags = <<>>
    /\ positionals = <<>>

PanicAssert == Err("assertion failed", "runtimex", <<>>)

PanicInExit == Err("panic raised by the Exit callback", "", <<>>)

\* the loop over the short flags without the entry in the value map
RECURSIVE BuildShortNoView(_, _, _, _)
BuildShortNoView(fxs, i, options, pview) ==
    IF i > Len(fxs) THEN [panic |-> FALSE, options |-> options, pview |-> pview]
    ELSE LET opt == MakeOption(fxs[i])
         IN IF opt = AssertionFailed
            THEN [panic |-> TRUE, options |-> options, pview |-> pview]
            ELSE BuildShortNoView(fxs, i + 1, Append(options, opt), pview)

\* parse, lines 549-555: options and value map from the short flags
RECURSIVE BuildShort(_, _, _, _)
BuildShort(fxs, i, options, pview) ==
    IF i > Len(fxs) THEN [panic |-> FALSE, options |-> options, pview |-> pview]
    ELSE LET opt == MakeOption(fxs[i])
         IN IF opt = AssertionFailed
            THEN [panic |-> TRUE, options |-> options, pview |-> pview]
            ELSE BuildShort(fxs, i + 1, Append(options, opt),
                            (opt.Name :> fxs[i].Value) @@ pview)

RECURSIVE BuildLongUnchecked(_, _, _, _)
BuildLongUnchecked(fxs, i, options, pview) ==
    IF i > Len(fxs) THEN [panic |-> FALSE, options |-> options, pview |-> pview]
    ELSE LET opt == MakeOption(fxs[i])
         IN IF opt = AssertionFailed
            THEN [panic |-> TRUE, options |-> options, pview |-> pview]
            ELSE BuildLongUnchecked(fxs, i + 1, Append(options, opt),
                                    (opt.Name :> fxs[i].Value) @@ pview)

\* parse, lines 557-564: the long fxs, asserting that the name is new
RECURSIVE BuildLong(_, _, _, _)
BuildLong(fxs, i, options, pview) ==
    IF i > Len(fxs) THEN [panic |-> FALSE, options |-> options, pview |-> pview]
    ELSE LET opt == MakeOption(fxs[i])
         IN IF opt = AssertionFailed \/ opt.Name \in DOMAIN pview
            THEN [panic |-> TRUE, options |-> options, pview |-> pview]
            ELSE BuildLong(fxs, i + 1, Append(options, opt),
                           (opt.Name :> fxs[i].Value) @@ pview)

BuildOptions(short, long) ==
    With(BuildShort(short, 1, <<>>, <<>>), LAMBDA s :
        IF s.panic THEN s ELSE BuildLong(long, 1, s.options, s.pview))

DispatchResult(panic, err, stop, m, pos, sets) ==
    [panic |-> panic, err |-> err, stop |-> stop, mem |-> m,
     positionals |-> pos, sets |-> sets]

DispatchNoHelpCheck(value, pview, m, pos) ==
    IF value.kind = "ValuePositionalArgument"
    THEN DispatchResult(FALSE, Nil, FALSE, m, Append(pos, value.Value), <<>>)
    ELSE LET optname == value.Option.Name
         IN IF optname \notin DOMAIN pview
            THEN DispatchResult(TRUE, Nil, TRUE, m, pos, <<>>)
            ELSE With(ValueSet(pview[optname], value.Value, m), LAMBDA r :
                 LET log == <<[name |-> optname, kind |-> pview[optname].kind,
                              raw |-> value.Value, err |-> r.err]>>
                 IN IF r.err # Nil
                    THEN DispatchResult(FALSE, r.err, TRUE, r.mem, pos, log)
                    ELSE DispatchResult(FALSE, Nil, FALSE, r.mem, pos, log))

DispatchIgnoreSetError(value, pview, m, pos) ==
    IF value.kind = "ValuePositionalArgument"
    THEN DispatchResult(FALSE, Nil, FALSE, m, Append(pos, value.Value), <<>>)
    ELSE LET optname == value.Option.Name
         IN IF optname \notin DOMAIN pview
            THEN DispatchResult(TRUE, Nil, TRUE, m, pos, <<>>)
            ELSE With(ValueSet(pview[optname], value.Value, m), LAMBDA r :
                 LET log == <<[name |-> optname, kind |-> pview[optname].kind,
                              raw |-> value.Value, err |-> r.err]>>
                 IN IF pview[optname].kind = "ValueAutoHelp"
                    THEN DispatchResult(FALSE, ErrHelp, TRUE, r.mem, pos, log)
                    ELSE DispatchResult(FALSE, Nil, FALSE, r.mem, pos, log))

\* Dispatch that keeps only the latest positional argument
DispatchLastPositional(value, pview, m, pos) ==
    IF value.kind = "ValuePositionalArgument"
    THEN DispatchResult(FALSE, Nil, FALSE, m, <<value.Value>>, <<>>)
    ELSE LET optname == value.Option.Name
         IN IF optname \notin DOMAIN pview
            THEN DispatchResult(TRUE, Nil, TRUE, m, pos, <<>>)
            ELSE With(ValueSet(pview[optname], value.Value, m), LAMBDA r :
                 LET log == <<[name |-> optname, kind |-> pview[optname].kind,
                              raw |-> value.Value, err |-> r.err]>>
                 IN IF r.err # Nil
                    THEN DispatchResult(FALSE, r.err, TRUE, r.mem, pos, log)
                    ELSE IF pview[optname].kind = "ValueAutoHelp"
                    THEN DispatchResult(FALSE, ErrHelp, TRUE, r.mem, pos, log)
                    ELSE DispatchResult(FALSE, Nil, FALSE, r.mem, pos, log))

\* parse, lines 573-596: one iteration of the loop over the results
Dispatch(value, pview, m, pos) ==
    IF value.kind = "ValuePositionalArgument"
    THEN DispatchResult(FALSE, Nil, FALSE, m, Append(pos, value.Value), <<>>)
    ELSE LET optname == value.Option.Name
         IN IF optname \notin DOMAIN pview
            THEN DispatchResult(TRUE, Nil, TRUE, m, pos, <<>>)
            ELSE With(ValueSet(pview[optname], value.Value, m), LAMBDA r :
                 LET log == <<[name |-> optname, kind |-> pview[optname].kind,
                              raw |-> value.Value, err |-> r.err]>>
                 IN IF r.err # Nil
                    THEN DispatchResult(FALSE, r.err, TRUE, r.mem, pos, log)
                    ELSE IF pview[optname].kind = "ValueAutoHelp"
                    THEN DispatchResult(FALSE, ErrHelp, TRUE, r.mem, pos, log)
                    ELSE DispatchResult(FALSE, Nil, FALSE, r.mem, pos, log))

HelpInvocationLongOnly(short, long) ==
    LET l == FirstIndex([n \in 1..Len(long) |-> long[n].Value.kind = "ValueAutoHelp"])
    IN IF l # 0 THEN ProgramName \o <<" ">> \o long[l].Prefix \o long[l].Name
       ELSE <<>>

\* HelpInvocation that looks at the short flags first
HelpInvocationShortFirst(short, long) ==
    LET l == FirstIndex([n \in 1..Len(long) |-> long[n].Value.kind = "ValueAutoHelp"])
        s == FirstIndex([n \in 1..Len(short) |-> short[n].Value.kind = "ValueAutoHelp"])
    IN IF s # 0 THEN ProgramName \o <<" ">> \o short[s].Prefix \o <<short[s].Name>>
       ELSE IF l # 0 THEN ProgramName \o <<" ">> \o long[l].Prefix \o long[l].Name
       ELSE <<>>

\* FlagSet.HelpInvocation: long flags first, then short flags
HelpInvocation(short, long) ==
    LET l == FirstIndex([n \in 1..Len(long) |-> long[n].Value.kind = "ValueAutoHelp"])
        s == FirstIndex([n \in 1..Len(short) |-> short[n].Value.kind = "ValueAutoHelp"])
    IN IF l # 0 THEN ProgramName \o <<" ">> \o long[l].Prefix \o long[l].Name
       ELSE IF s # 0 THEN ProgramName \o <<" ">> \o short[s].Prefix \o <<short[s].Name>>
       ELSE <<>>

Line(kind, text) == [line |-> kind, program |-> ProgramName, text |-> text]

PrintUsageErrorBare(short, long, err) ==
    LET cmdline == HelpInvocation(short, long)
    IN <<[line |-> "error", program |-> <<>>, text |-> err]>> \o
       (IF cmdline # <<>> THEN <<Line("hint", cmdline)>> ELSE <<>>)

\* DefaultUsagePrinter.PrintUsageError: the error line, then the hint
PrintUsageError(short, long, err) ==
    LET cmdline == HelpInvocation(short, long)
    IN <<Line("error", err)>> \o
       (IF cmdline # <<>> THEN <<Line("hint", cmdline)>> ELSE <<>>)

(***************************************************************************)
(* DefaultUsagePrinter.PrintUsageString.                                   *)
(***************************************************************************)
wrapAtColumn == 72

indent4 == <<" ", " ", " ", " ">>

indent8 == indent4 \o indent4

\* the placeholder replaced by Value.String() in a description
DefaultValuePlaceholder ==
    <<"@", "D", "E", "F", "A", "U", "L", "T", "_", "V", "A", "L", "U", "E",
      "@">>

\* NewDefaultUsagePrinter: no description, no example, no override
NewDefaultUsagePrinter ==
    [Description |-> <<>>, Example |-> <<>>, PositionalArgumentsUsage |-> <<>>]

\* textwrap.Do(text, wrapAtColumn, indent) for a paragraph that fits on one
\* line: the indentation, then the words
TextwrapDo(text, column, indent) == indent \o text

\* what up.div0 writes
Div0(value) == <<"\n">> \o value \o <<"\n">>

\* what up.div1 writes: a paragraph that starts with four spaces is verbatim
Div1(entry) ==
    IF HasPrefix(entry, indent4) THEN Div0(indent4 \o entry)
    ELSE Div0(TextwrapDo(entry, wrapAtColumn, indent4))

\* strings.ReplaceAll for a non-empty old
RECURSIVE ReplaceAll(_, _, _)
ReplaceAll(s, old, new) ==
    IF Len(s) < Len(old) THEN s
    ELSE IF HasPrefix(s, old)
    THEN new \o ReplaceAll(SubSeq(s, Len(old) + 1, Len(s)), old, new)
    ELSE <<s[1]>> \o ReplaceAll(Tail(s), old, new)

\* the characters of the class [A-Z0-9_-]
ArgumentNameChars ==
    {"A", "B", "C", "D", "E", "F", "G", "H", "I", "J", "K", "L", "M", "N", "O",
     "P", "Q", "R", "S", "T", "U", "V", "W", "X", "Y", "Z", "0", "1", "2", "3",
     "4", "5", "6", "7", "8", "9", "_", "-"}

\* length of the run of class characters that starts at position i
RECURSIVE ArgumentNameRun(_, _)
ArgumentNameRun(s, i) ==
    IF i > Len(s) \/ s[i] \notin ArgumentNameChars THEN 0
    ELSE 1 + ArgumentNameRun(s, i + 1)

\* the backquote character, which cannot be written inside a string here:
\* the one element of a text that is not a single character
Backquote == "backquote"

\* the regular expression of argumentNameFromDocsOrDefault, a backquote, one
\* or more characters of [A-Z0-9_-] and a backquote, matches at position i
ArgumentNameMatchAt(s, i) ==
    /\ s[i] = Backquote
    /\ ArgumentNameRun(s, i + 1) >= 1
    /\ i + 1 + ArgumentNameRun(s, i + 1) <= Len(s)
    /\ s[i + 1 + ArgumentNameRun(s, i + 1)] = Backquote

\* argumentNameFromDocsOrDefault without the test of the leading space
argumentNameFromDocsAlways(description, defaultValue) ==
    IF Len(description) > 0
    THEN LET first == description[1]
             at == FirstIndex([i \in 1..Len(first) |-> ArgumentNameMatchAt(first, i)])
         IN IF at # 0
            THEN <<" ">> \o SubSeq(first, at + 1, at + ArgumentNameRun(first, at + 1))
            ELSE defaultValue
    ELSE defaultValue

\* argumentNameFromDocsOrDefault(description, defaultValue)
argumentNameFromDocsOrDefault(description, defaultValue) ==
    IF Len(description) > 0 /\ HasPrefix(defaultValue, <<" ">>)
    THEN LET first == description[1]
             at == FirstIndex([i \in 1..Len(first) |-> ArgumentNameMatchAt(first, i)])
         IN IF at # 0
            THEN <<" ">> \o SubSeq(first, at + 1, at + ArgumentNameRun(first, at + 1))
            ELSE defaultValue
    ELSE defaultValue

\* ShortFlag.Usage
ShortFlagUsage(fx) ==
    fx.Prefix \o <<fx.Name>> \o
        argumentNameFromDocsOrDefault(fx.Description, fx.ArgumentName)

\* LongFlag.Usage
LongFlagUsage(fx) ==
    fx.Prefix \o fx.Name \o
        argumentNameFromDocsOrDefault(fx.Description, fx.ArgumentName)

usageFlag(synopsis, aliases, description) ==
    [synopsis |-> synopsis, aliases |-> aliases, description |-> description]

\* the paragraphs of a description, each wrapped and written by div0
RECURSIVE WrappedDescription(_)
WrappedDescription(description) ==
    IF description = <<>> THEN <<>>
    ELSE Div0(TextwrapDo(description[1], wrapAtColumn, indent8)) \o
         WrappedDescription(Tail(description))

\* the description of a flag as the usage screen shows it
RenderedDescription(fx, m) ==
    ReplaceAll(WrappedDescription(fx.Description), DefaultValuePlaceholder,
               String(fx.Value, m))

\* PrintUsageString, the list of all the usage flags: short, then long
UsageFlags(short, long, m) ==
    [i \in 1..Len(short) |->
        usageFlag(ShortFlagUsage(short[i]), <<>>, RenderedDescription(short[i], m))]
    \o
    [i \in 1..Len(long) |->
        usageFlag(LongFlagUsage(long[i]), <<>>, RenderedDescription(long[i], m))]

RECURSIVE AliasLoopKeepAliases(_, _, _)
AliasLoopKeepAliases(uflags, i, udescr) ==
    IF i > Len(uflags) THEN uflags
    ELSE LET d == uflags[i].description
         IN IF d \notin DOMAIN udescr
            THEN AliasLoopKeepAliases(uflags, i + 1, (d :> i) @@ udescr)
            ELSE AliasLoopKeepAliases(
                     [uflags EXCEPT ![udescr[d]].aliases =
                                        Append(@, uflags[i].synopsis)],
                     i + 1, udescr)

\* PrintUsageString, the loop that maps unique descriptions to usage flags:
\* udescr holds, for each description seen, the index of its first flag
RECURSIVE AliasLoop(_, _, _)
AliasLoop(uflags, i, udescr) ==
    IF i > Len(uflags) THEN uflags
    ELSE LET d == uflags[i].description
         IN IF d \notin DOMAIN udescr
            THEN AliasLoop(uflags, i + 1, (d :> i) @@ udescr)
            ELSE AliasLoop(
                     [uflags EXCEPT ![udescr[d]].aliases =
                                        Append(@, uflags[i].synopsis),
                                    ![i].synopsis = <<>>,
                                    ![i].description = <<>>],
                     i + 1, udescr)

\* the loop that prints the flags without the test of the description
RECURSIVE PrintFlagsAll(_, _)
PrintFlagsAll(uflags, i) ==
    IF i > Len(uflags) THEN <<>>
    ELSE <<[synopsis |-> Div1(Join(<<uflags[i].synopsis>> \o uflags[i].aliases,
                                   <<",", " ">>)),
            description |-> uflags[i].description]>>
         \o PrintFlagsAll(uflags, i + 1)

\* PrintUsageString, the loop that prints the flags with a description
RECURSIVE PrintFlags(_, _)
PrintFlags(uflags, i) ==
    IF i > Len(uflags) THEN <<>>
    ELSE (IF uflags[i].description = <<>> THEN <<>>
          ELSE <<[synopsis |-> Div1(Join(<<uflags[i].synopsis>> \o uflags[i].aliases,
                                         <<",", " ">>)),
                  description |-> uflags[i].description]>>)
         \o PrintFlags(uflags, i + 1)

\* DefaultUsagePrinter.flagsName
flagsName(short, long) ==
    IF Len(short) > 0 \/ Len(long) > 0
    THEN <<" ", "[", "f", "l", "a", "g", "s", "]">> ELSE <<>>

\* positionalArgumentsUsage without the case of the caller's override
positionalArgumentsUsageNoOverride(up, minArgs, maxArgs) ==
    IF maxArgs >= minArgs /\ maxArgs > 0
    THEN <<" ">> \o
         (CASE minArgs = 0 /\ maxArgs = 1 -> <<"[", "a", "r", "g", "]">>
            [] minArgs = 1 /\ maxArgs = 1 -> <<"a", "r", "g">>
            [] minArgs = 0 /\ maxArgs > 1 ->
                   <<"[", "a", "r", "g", " ", ".", ".", ".", "]">>
            [] OTHER ->
                   <<"a", "r", "g", " ", "[", "a", "r", "g", " ", ".", ".", ".", "]">>)
    ELSE <<>>

\* DefaultUsagePrinter.positionalArgumentsUsage
positionalArgumentsUsage(up, minArgs, maxArgs) ==
    IF maxArgs >= minArgs /\ maxArgs > 0
    THEN <<" ">> \o
         (CASE up.PositionalArgumentsUsage # <<>> -> up.PositionalArgumentsUsage
            [] up.PositionalArgumentsUsage = <<>> /\ minArgs = 0 /\ maxArgs = 1 ->
                   <<"[", "a", "r", "g", "]">>
            [] up.PositionalArgumentsUsage = <<>> /\ minArgs = 1 /\ maxArgs = 1 ->
                   <<"a", "r", "g">>
            [] up.PositionalArgumentsUsage = <<>> /\ minArgs = 0 /\ maxArgs > 1 ->
                   <<"[", "a", "r", "g", " ", ".", ".", ".", "]">>
            [] OTHER ->
                   <<"a", "r", "g", " ", "[", "a", "r", "g", " ", ".", ".", ".", "]">>)
    ELSE <<>>

Section(title, entries) == [div |-> title, entries |-> entries]

\* DefaultUsagePrinter.PrintUsageString of the default printer: the sections
\* of the usage screen in the order they are written
PrintUsageString(short, long, minArgs, maxArgs, m) ==
    With(NewDefaultUsagePrinter, LAMBDA up :
        <<Line("usage",
             <<Section("Usage",
                       <<Div0(indent4 \o ProgramName \o flagsName(short, long) \o
                              positionalArgumentsUsage(up, minArgs, maxArgs))>>)>>
             \o (IF Len(up.Description) > 0
                 THEN <<Section("Description",
                                [k \in DOMAIN up.Description |->
                                    Div1(up.Description[k])])>>
                 ELSE <<>>)
             \o (IF Len(short) > 0 \/ Len(long) > 0
                 THEN <<Section("Flags",
                                PrintFlags(AliasLoop(UsageFlags(short, long, m),
                                                     1, <<>>), 1))>>
                 ELSE <<>>)
             \o (IF Len(up.Example) > 0
                 THEN <<Section("Examples",
                                [k \in DOMAIN up.Example |-> Div1(up.Example[k])])>>
                 ELSE <<>>))>>)

HandleCaseNoContinue(handling, err) ==
    CASE err = Nil -> "return"
      [] handling = ExitOnError /\ err = ErrHelp -> "usage"
      [] handling = ExitOnError \/ handling = ContinueOnError -> "error"
      [] OTHER -> "panic"

HandleCaseHelpAsError(handling, err) ==
    CASE err = Nil -> "return"
      [] handling = ContinueOnError -> "return"
      [] handling = ExitOnError -> "error"
      [] OTHER -> "panic"

HandleCaseReturnOnExit(handling, err) ==
    CASE err = Nil -> "return"
      [] handling = ContinueOnError -> "return"
      [] handling = ExitOnError /\ err = ErrHelp -> "return"
      [] handling = ExitOnError -> "error"
      [] OTHER -> "panic"

HandleCasePanicReturns(handling, err) ==
    CASE err = Nil -> "return"
      [] handling = ContinueOnError -> "return"
      [] handling = ExitOnError /\ err = ErrHelp -> "usage"
      [] handling = ExitOnError -> "error"
      [] OTHER -> "return"

\* maybeHandleError, lines 600-620: the arm of the switch that is taken
HandleCase(handling, err) ==
    CASE err = Nil -> "return"
      [] handling = ContinueOnError -> "return"
      [] handling = ExitOnError /\ err = ErrHelp -> "usage"
      [] handling = ExitOnError -> "error"
      [] OTHER -> "panic"

ExitStatusHelp == 0

ExitStatusError == 2

\* parse, lines 573-596: the loop over the results, from result i on
RECURSIVE DispatchLoop(_, _, _, _, _, _)
DispatchLoop(values, i, pview, m, pos, sets) ==
    IF i > Len(values)
    THEN [panic |-> FALSE, err |-> Nil, mem |-> m, positionals |-> pos,
          sets |-> sets, done |-> i - 1]
    ELSE With(Dispatch(values[i], pview, m, pos), LAMBDA r :
         With(sets \o [k \in 1..Len(r.sets) |->
                        [at |-> i, name |-> r.sets[k].name, kind |-> r.sets[k].kind,
                         raw |-> r.sets[k].raw, err |-> r.sets[k].err,
                         mem |-> r.mem]], LAMBDA log :
            IF r.stop
            THEN [panic |-> r.panic, err |-> r.err, mem |-> r.mem,
                  positionals |-> r.positionals, sets |-> log, done |-> i]
            ELSE DispatchLoop(values, i + 1, pview, r.mem, r.positionals, log)))

(***************************************************************************)
(* The command lines the model explores.                                   *)
(***************************************************************************)
A_f == <<"-", "f">>

A_h == <<"-", "h">>

A_x == <<"-", "x">>

HelpName == <<"h", "e", "l", "p">>

ArgTokens == {A_f, R_7, R_nope, A_h, A_x}

ArgVectors == UNION {[1..n -> ArgTokens] : n \in 0..MaxArgs}

(***************************************************************************)
(* Registration: what the caller does between NewFlagSet and Parse.  The   *)
(* caller makes its calls in a fixed order, each at most once.             *)
(***************************************************************************)
\* FlagSet.AutoHelp(shortName, longName)
AutoHelp(shortName, longName) ==
    /\ pc = "config" /\ stage <= 1
    /\ LET value == Value("ValueAutoHelp", "")
       IN /\ ShortFlags' = IF shortName # NUL
                           THEN Append(ShortFlags, NewShortFlagAutoHelp(value, shortName, <<>>))
                           ELSE ShortFlags
          /\ LongFlags' = IF longName # <<>>
                          THEN Append(LongFlags, NewLongFlagAutoHelp(value, longName, <<>>))
                          ELSE LongFlags
    /\ stage' = 2
    /\ UNCHANGED <<flags, ErrorHandling, MinPositionalArgs, MaxPositionalArgs, DisablePermute,
                   positionals, mem, Stdout, Stderr, exitCalls, pc, call, probe>>

\* FlagSet.Int8Var(vp, shortName, longName)
Int8Var(vp, shortName, longName) ==
    /\ pc = "config" /\ stage <= 2
    /\ LET value == Value("ValueInt8", vp)
       IN /\ ShortFlags' = IF shortName # NUL
                           THEN Append(ShortFlags, NewShortFlagInt8(value, shortName, <<>>))
                           ELSE ShortFlags
          /\ LongFlags' = IF longName # <<>>
                          THEN Append(LongFlags, NewLongFlagInt8(value, longName, <<>>))
                          ELSE LongFlags
    /\ stage' = 3
    /\ UNCHANGED <<flags, ErrorHandling, MinPositionalArgs, MaxPositionalArgs, DisablePermute,
                   positionals, mem, Stdout, Stderr, exitCalls, pc, call, probe>>

\* fs.ShortFlags = append(fs.ShortFlags, fx): a descriptor built by hand, here
\* a help sentinel that is translated as an ordinary groupable flag
AppendShortFlag(fx) ==
    /\ pc = "config" /\ stage <= 3
    /\ ShortFlags' = Append(ShortFlags, fx)
    /\ stage' = 4
    /\ UNCHANGED <<flags, LongFlags, ErrorHandling, MinPositionalArgs, MaxPositionalArgs,
                   DisablePermute, positionals, mem, Stdout, Stderr, exitCalls, pc,
                   call, probe>>

BoolVarSeparateVariables(vp, shortName, longName) ==
    /\ pc = "config" /\ stage <= 4
    /\ ShortFlags' = IF shortName # NUL
                     THEN Append(ShortFlags,
                                 NewShortFlagBool(Value("ValueBool", vp), shortName, <<>>))
                     ELSE ShortFlags
    /\ LongFlags' = IF longName # <<>>
                    THEN Append(LongFlags,
                                NewLongFlagBool(Value("ValueBool", "b2"), longName, <<>>))
                    ELSE LongFlags
    /\ stage' = 5
    /\ UNCHANGED <<flags, ErrorHandling, MinPositionalArgs, MaxPositionalArgs, DisablePermute,
                   positionals, mem, Stdout, Stderr, exitCalls, pc, call, probe>>

BoolVarLongOnShort(vp, shortName, longName) ==
    /\ pc = "config" /\ stage <= 4
    /\ LET value == Value("ValueBool", vp)
       IN /\ ShortFlags' = IF shortName # NUL
                           THEN Append(ShortFlags, NewShortFlagBool(value, shortName, <<>>))
                           ELSE ShortFlags
          /\ LongFlags' = IF shortName # NUL
                          THEN Append(LongFlags, NewLongFlagBool(value, longName, <<>>))
                          ELSE LongFlags
    /\ stage' = 5
    /\ UNCHANGED <<flags, ErrorHandling, MinPositionalArgs, MaxPositionalArgs, DisablePermute,
                   positionals, mem, Stdout, Stderr, exitCalls, pc, call, probe>>

\* FlagSet.BoolVar(vp, shortName, longName)
BoolVar(vp, shortName, longName) ==
    /\ pc = "config" /\ stage <= 4
    /\ LET value == Value("ValueBool", vp)
       IN /\ ShortFlags' = IF shortName # NUL
                           THEN Append(ShortFlags, NewShortFlagBool(value, shortName, <<>>))
                           ELSE ShortFlags
          /\ LongFlags' = IF longName # <<>>
                          THEN Append(LongFlags, NewLongFlagBool(value, longName, <<>>))
                          ELSE LongFlags
    /\ stage' = 5
    /\ UNCHANGED <<flags, ErrorHandling, MinPositionalArgs, MaxPositionalArgs, DisablePermute,
                   positionals, mem, Stdout, Stderr, exitCalls, pc, call, probe>>

\* FlagSet.SetMinMaxPositionalArgs(minArgs, maxArgs)
SetMinMaxPositionalArgs(minArgs, maxArgs) ==
    /\ pc = "config" /\ stage <= 5
    /\ MinPositionalArgs' = minArgs
    /\ MaxPositionalArgs' = maxArgs
    /\ stage' = 6
    /\ UNCHANGED <<flags, ShortFlags, LongFlags, ErrorHandling, DisablePermute, positionals,
                   mem, Stdout, Stderr, exitCalls, pc, call, probe>>

\* FlagSet.StringVar(vp, shortName, longName)
StringVar(vp, shortName, longName) ==
    /\ pc = "config" /\ stage <= 6
    /\ LET value == Value("ValueString", vp)
       IN /\ ShortFlags' = IF shortName # NUL
                           THEN Append(ShortFlags, NewShortFlagString(value, shortName, <<>>))
                           ELSE ShortFlags
          /\ LongFlags' = IF longName # <<>>
                          THEN Append(LongFlags, NewLongFlagString(value, longName, <<>>))
                          ELSE LongFlags
    /\ stage' = 7
    /\ UNCHANGED <<flags, ErrorHandling, MinPositionalArgs, MaxPositionalArgs, DisablePermute,
                   positionals, mem, Stdout, Stderr, exitCalls, pc, call, probe>>

(***************************************************************************)
(* FlagSet.Parse(args) = maybeHandleError(parse(args)).                    *)
(***************************************************************************)
\* math.MaxInt, as the largest integer the checker represents
MathMaxInt == 2147483647

ParseCallIgnoringBounds(args) ==
    /\ pc = "config"
    /\ \E b \in {BuildOptions(ShortFlags, LongFlags)} :
       \E t \in {ParserParse(b.options, 0, MathMaxInt,
                             OptionsArgumentsSeparator, DisablePermute, args)} :
       \E d \in {DispatchLoop(t.values, 1, b.pview, mem, positionals, <<>>)} :
          IF b.panic
          THEN /\ call' = [call EXCEPT !.args = args, !.panic = PanicAssert]
               /\ pc' = "panicked"
               /\ UNCHANGED <<mem, positionals>>
          ELSE IF t.err # Nil
          THEN /\ call' = [call EXCEPT !.args = args, !.tokenized = TRUE, !.err = t.err]
               /\ pc' = "handle"
               /\ UNCHANGED <<mem, positionals>>
          ELSE /\ call' = [call EXCEPT !.args = args, !.tokenized = TRUE,
                                       !.results = t.values, !.done = d.done,
                                       !.sets = d.sets, !.err = d.err,
                                       !.panic = IF d.panic THEN PanicAssert ELSE Nil]
               /\ pc' = IF d.panic THEN "panicked" ELSE "handle"
               /\ mem' = d.mem
               /\ positionals' = d.positionals
    /\ UNCHANGED <<flags, ShortFlags, LongFlags, ErrorHandling, MinPositionalArgs,
                   MaxPositionalArgs, DisablePermute, Stdout, Stderr, exitCalls,
                   stage, probe>>

\* FlagSet.parse: options and value map, tokenizer, loop over the results
ParseCall(args) ==
    /\ pc = "config"
    /\ \E b \in {BuildOptions(ShortFlags, LongFlags)} :
       \E t \in {ParserParse(b.options, MinPositionalArgs, MaxPositionalArgs,
                             OptionsArgumentsSeparator, DisablePermute, args)} :
       \E d \in {DispatchLoop(t.values, 1, b.pview, mem, positionals, <<>>)} :
          IF b.panic
          THEN /\ call' = [call EXCEPT !.args = args, !.panic = PanicAssert]
               /\ pc' = "panicked"
               /\ UNCHANGED <<mem, positionals>>
          ELSE IF t.err # Nil
          THEN /\ call' = [call EXCEPT !.args = args, !.tokenized = TRUE, !.err = t.err]
               /\ pc' = "handle"
               /\ UNCHANGED <<mem, positionals>>
          ELSE /\ call' = [call EXCEPT !.args = args, !.tokenized = TRUE,
                                       !.results = t.values, !.done = d.done,
                                       !.sets = d.sets, !.err = d.err,
                                       !.panic = IF d.panic THEN PanicAssert ELSE Nil]
               /\ pc' = IF d.panic THEN "panicked" ELSE "handle"
               /\ mem' = d.mem
               /\ positionals' = d.positionals
    /\ UNCHANGED <<flags, ShortFlags, LongFlags, ErrorHandling, MinPositionalArgs,
                   MaxPositionalArgs, DisablePermute, Stdout, Stderr, exitCalls,
                   stage, probe>>

\* FlagSet.maybeHandleError up to the call of fs.Exit
HandleError ==
    /\ pc = "handle"
    /\ \E arm \in {HandleCase(ErrorHandling, call.err)} :
          CASE arm = "return" ->
                 /\ call' = [call EXCEPT !.ret = call.err]
                 /\ pc' = "returned"
                 /\ UNCHANGED <<Stdout, Stderr>>
            [] arm = "usage" ->
                 /\ Stdout' = Stdout \o PrintUsageString(ShortFlags, LongFlags,
                                        MinPositionalArgs, MaxPositionalArgs, mem)
                 /\ call' = [call EXCEPT !.status = ExitStatusHelp]
                 /\ pc' = "exit"
                 /\ UNCHANGED Stderr
            [] arm = "error" ->
                 /\ Stderr' = Stderr \o PrintUsageError(ShortFlags, LongFlags, call.err)
                 /\ call' = [call EXCEPT !.status = ExitStatusError]
                 /\ pc' = "exit"
                 /\ UNCHANGED Stdout
            [] arm = "panic" ->
                 /\ call' = [call EXCEPT !.panic = call.err]
                 /\ pc' = "panicked"
                 /\ UNCHANGED <<Stdout, Stderr>>
    /\ UNCHANGED <<flags, ShortFlags, LongFlags, ErrorHandling, MinPositionalArgs,
                   MaxPositionalArgs, DisablePermute, positionals, mem, exitCalls,
                   stage, probe>>

\* what the configured Exit function does: os.Exit never returns; a
\* replacement installed by the caller may return or panic
ExitOutcomes == {"terminates", "returns", "panics"}

\* fs.Exit(status) and, if it returns, the panic(err) that follows the switch
ExitCall(outcome) ==
    /\ pc = "exit"
    /\ exitCalls' = Append(exitCalls, call.status)
    /\ CASE outcome = "terminates" ->
              pc' = "exited" /\ call' = [call EXCEPT !.exit = outcome]
         [] outcome = "returns" ->
              /\ pc' = "panicked"
              /\ call' = [call EXCEPT !.exit = outcome, !.panic = call.err]
         [] outcome = "panics" ->
              /\ pc' = "panicked"
              /\ call' = [call EXCEPT !.exit = outcome, !.panic = PanicInExit]
    /\ UNCHANGED <<flags, ShortFlags, LongFlags, ErrorHandling, MinPositionalArgs,
                   MaxPositionalArgs, DisablePermute, positionals, mem, Stdout,
                   Stderr, stage, probe>>

ErrorHandlings == {ContinueOnError, ExitOnError, PanicOnError}

Init ==
    /\ \E handling \in ErrorHandlings : NewFlagSet(handling)
    /\ mem = InitialMem
    /\ exitCalls = <<>>
    /\ pc = "config"
    /\ call = NoCall
    /\ stage = 1
    /\ probe = NoProbe

\* a descriptor built by hand: "-x" bound to the help sentinel and translated
\* like a boolean flag
SentinelAsBoolFlag ==
    ShortFlag(<<>>, <<>>, "ShortFlagMakeOptionBool", "x", DefaultShortPrefix,
              Value("ValueAutoHelp", ""))

Next ==
    \/ AutoHelp("h", HelpName)
    \/ Int8Var("n1", "f", <<>>)
    \/ AppendShortFlag(SentinelAsBoolFlag)
    \/ BoolVar("b1", "v", <<"v">>)
    \/ SetMinMaxPositionalArgs(0, 1)
    \/ \E args \in ArgVectors : ParseCall(args)
    \/ HandleError
    \/ \E outcome \in ExitOutcomes : ExitCall(outcome)

Spec == Init /\ [][Next]_vars

(***************************************************************************)
(* Value.Set on its own: a value of some type bound to the variable "x",   *)
(* handed a bounded number of raw strings one after the other.             *)
(***************************************************************************)
InitValue ==
    /\ NewFlagSet(ContinueOnError)
    /\ \E kind \in ValueKinds :
          /\ mem = [vp \in {"x"} |-> ZeroOf(kind)]
          /\ probe = [value |-> Value(kind, "x"), raw |-> <<>>, err |-> Nil,
                      before |-> [vp \in {"x"} |-> ZeroOf(kind)], n |-> 0]
    /\ exitCalls = <<>>
    /\ pc = "value"
    /\ call = NoCall
    /\ stage = 1

\* v.Set(raw) on the value under test
ValueSetCall(raw) ==
    /\ pc = "value"
    /\ probe.n < MaxSets
    /\ \E r \in {ValueSet(probe.value, raw, mem)} :
          /\ mem' = r.mem
          /\ probe' = [probe EXCEPT !.raw = raw, !.err = r.err, !.before = mem,
                                    !.n = @ + 1]
    /\ UNCHANGED <<flags, ShortFlags, LongFlags, ErrorHandling, MinPositionalArgs,
                   MaxPositionalArgs, DisablePermute, positionals, Stdout, Stderr,
                   exitCalls, pc, call, stage>>

NextValue == \E raw \in RawUniverse : ValueSetCall(raw)

SpecValue == InitValue /\ [][NextValue]_vars

(***************************************************************************)
(* The textual forms of each type among the raw strings, listed by hand    *)
(* from the documentation of strconv and time.                             *)
(***************************************************************************)
BoolForms == {R_empty, R_true, R_false, R_TRUE, R_0, R_1}

Int8Forms == {R_0, R_1, R_7, R_12, R_m1, R_p7, R_127, R_m128}

Int16Forms == Int8Forms \cup {R_128, R_m129, R_255, R_256, R_32767, R_m32768}

Int32Forms ==
    Int16Forms \cup {R_32768, R_m32769, R_65535, R_65536, R_2147483647, R_m2147483648}

Int64Forms ==
    Int32Forms \cup {R_2147483648, R_m2147483649, R_4294967295, R_4294967296,
                     R_9223372036854775807, R_m9223372036854775808}

Uint8Forms == {R_0, R_1, R_7, R_12, R_127, R_128, R_255}

Uint16Forms == Uint8Forms \cup {R_256, R_32767, R_32768, R_65535}

Uint32Forms ==
    Uint16Forms \cup {R_65536, R_2147483647, R_2147483648, R_4294967295}

Uint64Forms ==
    Uint32Forms \cup {R_4294967296, R_9223372036854775807, R_9223372036854775808,
                      R_18446744073709551615}

Float64Forms ==
    Int64Forms \cup Uint64Forms \cup {R_m9223372036854775809, R_18446744073709551616,
                                      R_1p25}

DurationForms == {R_0, R_3s, R_m3s, R_1m, R_1h30m, R_1p5s, R_2562047h}

ValidForms(kind) ==
    CASE kind \in {"ValueAutoHelp", "ValueBool"} -> BoolForms
      [] kind = "ValueDuration" -> DurationForms
      [] kind = "ValueFloat64" -> Float64Forms
      [] kind = "ValueInt8" -> Int8Forms
      [] kind = "ValueInt16" -> Int16Forms
      [] kind = "ValueInt32" -> Int32Forms
      [] kind \in {"ValueInt", "ValueInt64"} -> Int64Forms
      [] kind = "ValueUint8" -> Uint8Forms
      [] kind = "ValueUint16" -> Uint16Forms
      [] kind = "ValueUint32" -> Uint32Forms
      [] kind \in {"ValueUint", "ValueUInt64"} -> Uint64Forms
      [] kind \in {"ValueString", "ValueStringSlice"} -> RawUniverse

\* C6: for every value type, Set with a string that is not a valid textual
\* form of the type returns an error and leaves the bound variable as it was
\* before the call.
C6_InvalidSetFailsAndKeeps ==
    (pc = "value" /\ probe.n > 0 /\ probe.raw \notin ValidForms(probe.value.kind))
        => (probe.err # Nil /\ mem = probe.before)

\* a second Set, on a variable that holds a value assigned by the first, is
\* handed an invalid string: it fails and the assigned value stays
C6_Witness ==
    /\ pc = "value" /\ probe.n = 2
    /\ probe.value.kind = "ValueInt8"
    /\ probe.raw = R_128
    /\ probe.err # Nil
    /\ mem["x"] = Num(FALSE, <<7>>)

(***************************************************************************)
(* Properties of Parse.                                                    *)
(***************************************************************************)
\* parse has produced an outcome and maybeHandleError has acted on it
Handled == pc \in {"returned", "exit", "exited", "panicked"} /\ call.tokenized

NoOutput == Stdout = <<>> /\ Stderr = <<>>

\* the positional arguments among the results
RECURSIVE PositionalValues(_)
PositionalValues(values) ==
    IF values = <<>> THEN <<>>
    ELSE IF Head(values).kind = "ValuePositionalArgument"
    THEN <<Head(values).Value>> \o PositionalValues(Tail(values))
    ELSE PositionalValues(Tail(values))

\* C1: under ContinueOnError Parse returns the outcome of parsing unchanged
\* (nil, a tokenizer error, a Set error or ErrHelp); for an outcome of
\* parsing it never calls Exit, writes nothing to Stdout or Stderr and does
\* not panic: the only panics are the assertions inside parse.
C1_ContinueReturnsOutcome ==
    ErrorHandling = ContinueOnError =>
        /\ exitCalls = <<>> /\ NoOutput
        /\ pc \notin {"exit", "exited"}
        /\ pc = "returned" => call.ret = call.err
        /\ pc = "panicked" => (call.panic = PanicAssert /\ call.err = Nil)

C1_Witness ==
    /\ ErrorHandling = ContinueOnError
    /\ pc = "returned"
    /\ call.sets # <<>>
    /\ call.ret = ErrSyntax("ParseInt", R_nope)

\* C2: under ExitOnError, when the outcome of parsing is ErrHelp, the usage
\* is written to Stdout and nothing to Stderr, and only then Exit is called,
\* exactly once, with status 0.
C2_ExitOnHelp ==
    (ErrorHandling = ExitOnError /\ Handled /\ call.err = ErrHelp) =>
        /\ Stdout = PrintUsageString(ShortFlags, LongFlags, MinPositionalArgs,
                                     MaxPositionalArgs, mem)
        /\ Len(Stdout) = 1 /\ Stdout[1].line = "usage" /\ Stderr = <<>>
        /\ pc # "returned"
        /\ pc = "exit" => (exitCalls = <<>> /\ call.status = 0)
        /\ pc \in {"exited", "panicked"} => exitCalls = <<0>>

C2_Witness ==
    /\ ErrorHandling = ExitOnError
    /\ call.err = ErrHelp
    /\ pc = "exited"
    /\ exitCalls = <<0>>
    /\ Stdout # <<>>

\* C3: under ExitOnError, when the outcome of parsing is an error other than
\* ErrHelp, exactly one "<program>: <error>" line, followed by at most one
\* hint line, is written to Stderr and nothing to Stdout, and only then Exit
\* is called, exactly once, with status 2.
C3_ExitOnFailure ==
    (ErrorHandling = ExitOnError /\ Handled /\ call.err \notin {Nil, ErrHelp}) =>
        /\ Stdout = <<>>
        /\ Len(Stderr) \in {1, 2}
        /\ Stderr[1] = [line |-> "error", program |-> ProgramName, text |-> call.err]
        /\ Len(Stderr) = 2 => Stderr[2].line = "hint"
        /\ pc # "returned"
        /\ pc = "exit" => (exitCalls = <<>> /\ call.status = 2)
        /\ pc \in {"exited", "panicked"} => exitCalls = <<2>>

C3_Witness ==
    /\ ErrorHandling = ExitOnError
    /\ call.err = ErrUnknownOption(A_x)
    /\ pc = "exited"
    /\ exitCalls = <<2>>
    /\ Len(Stderr) = 2

\* C4: under PanicOnError every non-nil outcome of parsing, ErrHelp
\* included, makes Parse panic with that same error; under ExitOnError, if
\* Exit returns, Parse panics with the original error after the output has
\* been written and Exit has been called.
C4_PanicWithSameError ==
    /\ (ErrorHandling = PanicOnError /\ Handled /\ call.err # Nil) =>
          /\ pc = "panicked" /\ call.panic = call.err
          /\ exitCalls = <<>> /\ NoOutput
    /\ (ErrorHandling = ExitOnError /\ call.exit = "returns") =>
          /\ pc = "panicked" /\ call.panic = call.err /\ call.err # Nil
          /\ Len(exitCalls) = 1
          /\ Len(Stdout) + Len(Stderr) > 0

C4_Witness ==
    /\ ErrorHandling = PanicOnError
    /\ pc = "panicked"
    /\ call.err = ErrHelp
    /\ call.panic = ErrHelp

\* C5: under ExitOnError Parse never returns ErrHelp or any other non-nil
\* error: it returns only nil, only when parsing succeeded, with no call of
\* Exit and nothing printed; every non-nil outcome ends in a call of Exit or
\* in a panic.
C5_ExitNeverReturnsError ==
    ErrorHandling = ExitOnError =>
        /\ pc = "returned" =>
              (call.ret = Nil /\ call.err = Nil /\ exitCalls = <<>> /\ NoOutput)
        /\ (pc \in {"returned", "exited", "panicked"} /\ call.err # Nil) =>
              (exitCalls # <<>> \/ pc = "panicked")

C5_Witness ==
    /\ ErrorHandling = ExitOnError
    /\ pc = "returned"
    /\ call.ret = Nil
    /\ call.sets # <<>>
    /\ positionals # <<>>

\* C7: if Set fails for the k-th result, the outcome of parsing is that
\* error at once: no Set is attempted for a later result, no later
\* positional argument is appended, and the variables hold what the results
\* before k assigned.
C7_SetFailureAborts ==
    \A j \in 1..Len(call.sets) :
        call.sets[j].err # Nil =>
            /\ j = Len(call.sets)
            /\ call.err = call.sets[j].err
            /\ call.done = call.sets[j].at
            /\ positionals = PositionalValues(SubSeq(call.results, 1, call.sets[j].at - 1))
            /\ mem = (IF j = 1 THEN InitialMem ELSE call.sets[j - 1].mem)

C7_Witness ==
    /\ call.args = <<A_f, R_7, A_f, R_nope>>
    /\ Len(call.sets) = 2
    /\ call.sets[2].err = ErrSyntax("ParseInt", R_nope)
    /\ call.err = ErrSyntax("ParseInt", R_nope)
    /\ mem["n1"] = Num(FALSE, <<7>>)

\* C8: when the loop reaches an option result bound to the help sentinel and
\* Set on it succeeds, the outcome of parsing is ErrHelp, no later result is
\* dispatched, and the results before it have been applied.
C8_HelpStopsDispatch ==
    \A j \in 1..Len(call.sets) :
        (call.sets[j].kind = "ValueAutoHelp" /\ call.sets[j].err = Nil) =>
            /\ j = Len(call.sets)
            /\ call.err = ErrHelp
            /\ call.done = call.sets[j].at
            /\ positionals = PositionalValues(SubSeq(call.results, 1, call.sets[j].at - 1))
            /\ mem = call.sets[j].mem
            /\ \A i \in 1..(call.sets[j].at - 1) :
                  call.results[i].kind = "ValueOption" =>
                      \E k \in 1..(j - 1) : call.sets[k].at = i /\ call.sets[k].err = Nil

C8_Witness ==
    /\ call.args = <<A_f, R_7, A_x, A_x>>
    /\ Len(call.results) = 3
    /\ call.done = 2
    /\ call.err = ErrHelp
    /\ mem["n1"] = Num(FALSE, <<7>>)

\* the short flag name is registered with the AutoHelp constructor
AutoHelpShort(name) ==
    \E i \in 1..Len(ShortFlags) :
        /\ ShortFlags[i].Name = name
        /\ ShortFlags[i].MakeOption = "ShortFlagMakeOptionAutoHelp"

ShortDefined(name) == \E i \in 1..Len(ShortFlags) : ShortFlags[i].Name = name

\* C9: if the argument vector holds the token of a registered AutoHelp flag
\* followed by an undefined option, as in ["-f", "7", "-h", "-x"], the
\* outcome of parsing is ErrHelp and not an unknown-option error.
C9_HelpBeforeUnknownOption ==
    (/\ call.tokenized
     /\ AutoHelpShort("h") /\ ~ShortDefined("x")
     /\ \E i, j \in 1..Len(call.args) :
           i < j /\ call.args[i] = A_h /\ call.args[j] = A_x)
        => call.err = ErrHelp

C9_Witness ==
    /\ call.tokenized
    /\ call.args = <<A_f, R_7, A_h, A_x>>
    /\ ShortDefined("f") /\ AutoHelpShort("h") /\ ~ShortDefined("x")
    /\ call.err = ErrHelp
    /\ pc = "handle"

\* a short flag and a long flag resolve to the same option name
DuplicateName ==
    \E i \in 1..Len(ShortFlags), j \in 1..Len(LongFlags) :
        <<ShortFlags[i].Name>> = LongFlags[j].Name

\* C10: if a short flag and a long flag resolve to the same option name,
\* Parse panics while building the options, before the tokenizer runs, for
\* every argument vector and every policy, with no call of Exit and nothing
\* printed.
C10_DuplicateNamePanics ==
    (DuplicateName /\ pc # "config") =>
        /\ pc = "panicked"
        /\ call.panic = PanicAssert
        /\ ~call.tokenized
        /\ exitCalls = <<>> /\ NoOutput

C10_Witness ==
    /\ DuplicateName
    /\ ErrorHandling = ExitOnError
    /\ call.args = <<>>
    /\ pc = "panicked"
    /\ call.panic = PanicAssert

(***************************************************************************)
(* The registry on its own: descriptors of every translation strategy,     *)
(* valid or not, registered through the constructors or appended by hand,  *)
(* then one Parse call on a short argument vector.                         *)
(***************************************************************************)
MaxLongFlags == 1

A_c == <<"-", "c">>

\* fs.LongFlags = append(fs.LongFlags, fx): a long descriptor built by hand
AppendLongFlag(fx) ==
    /\ pc = "config"
    /\ Len(LongFlags) < MaxLongFlags
    /\ LongFlags' = Append(LongFlags, fx)
    /\ UNCHANGED <<flags, ShortFlags, ErrorHandling, MinPositionalArgs, MaxPositionalArgs,
                   DisablePermute, positionals, mem, Stdout, Stderr, exitCalls, pc,
                   call, stage, probe>>

ShortStrategies ==
    {"ShortFlagMakeOptionAutoHelp", "ShortFlagMakeOptionBool",
     "ShortFlagMakeOptionWithValue"}

LongStrategies ==
    {"LongFlagMakeOptionAutoHelp", "LongFlagMakeOptionBool",
     "LongFlagMakeOptionWithRequiredValue", "LongFlagMakeOptionWithOptionalValue"}

\* the value a hand-built descriptor of the strategy is bound to
ValueFor(strategy) ==
    CASE strategy \in {"ShortFlagMakeOptionAutoHelp", "LongFlagMakeOptionAutoHelp"} ->
            Value("ValueAutoHelp", "")
      [] strategy \in {"ShortFlagMakeOptionBool", "LongFlagMakeOptionBool"} ->
            Value("ValueBool", "b1")
      [] OTHER -> Value("ValueInt8", "n1")

\* hand-built short descriptors: one that repeats the name "c", and for each
\* strategy one without a prefix and one without a name
ShortFlagInputs ==
    {NewShortFlagBool(Value("ValueBool", "b1"), "c", <<>>)}
    \cup {ShortFlag(<<>>, <<>>, st, "q", <<>>, ValueFor(st)) : st \in ShortStrategies}
    \cup {ShortFlag(<<>>, <<>>, st, NUL, DefaultShortPrefix, ValueFor(st)) :
             st \in ShortStrategies}

\* hand-built long descriptors: an optional-value flag "+o", a second flag
\* named "n", and for each strategy one without a prefix and one without a
\* name
LongFlagInputs ==
    {LongFlag(<<>>, <<>>, R_7, "LongFlagMakeOptionWithOptionalValue", <<"o">>,
              <<"+">>, Value("ValueInt8", "n1")),
     NewLongFlagBool(Value("ValueBool", "b1"), <<"n">>, <<>>)}
    \cup {LongFlag(<<>>, <<>>, <<>>, st, <<"q">>, <<>>, ValueFor(st)) :
             st \in LongStrategies}
    \cup {LongFlag(<<>>, <<>>, <<>>, st, <<>>, DefaultLongPrefix, ValueFor(st)) :
             st \in LongStrategies}

RegistryArgs == {<<>>, <<A_c>>}

NextRegistry ==
    \/ \E s \in {NUL, "h"}, l \in {<<>>, HelpName} : AutoHelp(s, l)
    \/ \E s \in {NUL, "c"}, l \in {<<>>, <<"n">>} : Int8Var("n1", s, l)
    \/ \E fx \in ShortFlagInputs : AppendShortFlag(fx)
    \/ \E s \in {NUL, "v"}, l \in {<<>>, <<"c">>} : BoolVar("b1", s, l)
    \/ \E fx \in LongFlagInputs : AppendLongFlag(fx)
    \/ \E args \in RegistryArgs : ParseCall(args)
    \/ HandleError
    \/ \E outcome \in ExitOutcomes : ExitCall(outcome)

SpecRegistry == Init /\ [][NextRegistry]_vars

\* the option name a descriptor resolves to
ShortOptionName(fx) == <<fx.Name>>

ValidShort(fx) == fx.Prefix # <<>> /\ fx.Name # NUL

ValidLong(fx) == fx.Prefix # <<>> /\ fx.Name # <<>>

AllValid ==
    /\ \A i \in 1..Len(ShortFlags) : ValidShort(ShortFlags[i])
    /\ \A j \in 1..Len(LongFlags) : ValidLong(LongFlags[j])

TwoShortSameName ==
    \E i, j \in 1..Len(ShortFlags) : i < j /\ ShortFlags[i].Name = ShortFlags[j].Name

TwoLongSameName ==
    \E i, j \in 1..Len(LongFlags) : i < j /\ LongFlags[i].Name = LongFlags[j].Name

\* C11: if two registered descriptors of any flavor (two short, two long,
\* one of each) resolve to the same option name, Parse panics; hence when
\* the tokenizer has been invoked every option name belongs to exactly one
\* registered descriptor.
C11_AnyDuplicatePanics ==
    /\ (pc # "config" /\ (TwoShortSameName \/ TwoLongSameName \/ DuplicateName))
          => (pc = "panicked" /\ call.panic = PanicAssert /\ ~call.tokenized)
    /\ call.tokenized => ~(TwoShortSameName \/ TwoLongSameName \/ DuplicateName)

\* two short flags named "c": the tokenizer is invoked and the first flag's
\* token is dispatched
C11_Witness ==
    /\ TwoShortSameName /\ AllValid
    /\ call.tokenized
    /\ call.args = <<A_c>>
    /\ pc = "returned"

\* C12: every translation strategy fails its assertion when the
\* descriptor's Prefix is empty or its Name is zero (short) or empty (long),
\* and Parse on a registry holding such a descriptor panics, for every
\* argument vector and every policy, instead of returning an error: the
\* tokenizer is not invoked, nothing is returned, printed or handed to Exit.
C12_InvalidDescriptorPanics ==
    /\ \A i \in 1..Len(ShortFlags) :
          ~ValidShort(ShortFlags[i]) => MakeOption(ShortFlags[i]) = AssertionFailed
    /\ \A j \in 1..Len(LongFlags) :
          ~ValidLong(LongFlags[j]) => MakeOption(LongFlags[j]) = AssertionFailed
    /\ (~AllValid /\ pc # "config") =>
          /\ pc = "panicked"
          /\ call.panic = PanicAssert
          /\ ~call.tokenized
          /\ call.ret = Nil /\ call.err = Nil
          /\ exitCalls = <<>> /\ NoOutput

C12_Witness ==
    /\ \E j \in 1..Len(LongFlags) :
          /\ LongFlags[j].MakeOption = "LongFlagMakeOptionWithOptionalValue"
          /\ LongFlags[j].Name = <<>>
    /\ \A i \in 1..Len(ShortFlags) : ValidShort(ShortFlags[i])
    /\ ErrorHandling = ContinueOnError
    /\ call.args = <<A_c>>
    /\ pc = "panicked"
    /\ call.panic = PanicAssert

\* the option type each translation strategy yields
TypeOf(strategy) ==
    CASE strategy \in {"ShortFlagMakeOptionAutoHelp", "LongFlagMakeOptionAutoHelp"} ->
            "OptionTypeEarlyArgumentNone"
      [] strategy = "ShortFlagMakeOptionBool" -> "OptionTypeGroupableArgumentNone"
      [] strategy = "ShortFlagMakeOptionWithValue" -> "OptionTypeGroupableArgumentRequired"
      [] strategy = "LongFlagMakeOptionWithRequiredValue" ->
            "OptionTypeStandaloneArgumentRequired"
      [] strategy \in {"LongFlagMakeOptionBool", "LongFlagMakeOptionWithOptionalValue"} ->
            "OptionTypeStandaloneArgumentOptional"

\* C13: for every valid descriptor the translation yields an option whose
\* Prefix and Name are the descriptor's and whose Type is: AutoHelp, early
\* without argument; Bool, groupable without argument (short) and standalone
\* with optional argument and default "true" (long); value, groupable with
\* required argument (short) and standalone with required argument (long);
\* optional value, standalone with optional argument and the descriptor's
\* DefaultValue as default.
C13_TranslationTable ==
    /\ \A i \in 1..Len(ShortFlags) :
          ValidShort(ShortFlags[i]) =>
             /\ MakeOption(ShortFlags[i]).Prefix = ShortFlags[i].Prefix
             /\ MakeOption(ShortFlags[i]).Name = ShortOptionName(ShortFlags[i])
             /\ MakeOption(ShortFlags[i]).Type = TypeOf(ShortFlags[i].MakeOption)
    /\ \A j \in 1..Len(LongFlags) :
          ValidLong(LongFlags[j]) =>
             /\ MakeOption(LongFlags[j]).Prefix = LongFlags[j].Prefix
             /\ MakeOption(LongFlags[j]).Name = LongFlags[j].Name
             /\ MakeOption(LongFlags[j]).Type = TypeOf(LongFlags[j].MakeOption)
             /\ LongFlags[j].MakeOption = "LongFlagMakeOptionBool" =>
                   MakeOption(LongFlags[j]).DefaultValue = R_true
             /\ LongFlags[j].MakeOption = "LongFlagMakeOptionWithOptionalValue" =>
                   MakeOption(LongFlags[j]).DefaultValue = LongFlags[j].DefaultValue

\* a registry with short AutoHelp and Bool flags and long Bool,
\* required-value and optional-value flags, translated by a Parse call
C13_Witness ==
    /\ AllValid
    /\ call.tokenized
    /\ {ShortFlags[i].MakeOption : i \in 1..Len(ShortFlags)} =
          {"ShortFlagMakeOptionAutoHelp", "ShortFlagMakeOptionBool"}
    /\ {LongFlags[j].MakeOption : j \in 1..Len(LongFlags)} =
          {"LongFlagMakeOptionBool", "LongFlagMakeOptionWithRequiredValue",
           "LongFlagMakeOptionWithOptionalValue"}
    /\ \E j \in 1..Len(LongFlags) : LongFlags[j].DefaultValue = R_7

ShortNameInputs == {NUL, "c", "h", "v"}

LongNameInputs == {<<>>, <<"c">>, <<"n">>, HelpName}

\* what a registration call given the two names does to the registry
RegistrationEffect(shortName, longName) ==
    /\ Len(ShortFlags') = Len(ShortFlags) + (IF shortName # NUL THEN 1 ELSE 0)
    /\ Len(LongFlags') = Len(LongFlags) + (IF longName # <<>> THEN 1 ELSE 0)
    /\ SubSeq(ShortFlags', 1, Len(ShortFlags)) = ShortFlags
    /\ SubSeq(LongFlags', 1, Len(LongFlags)) = LongFlags
    /\ shortName # NUL =>
          /\ ShortFlags'[Len(ShortFlags')].Name = shortName
          /\ ShortFlags'[Len(ShortFlags')].Prefix = <<"-">>
    /\ longName # <<>> =>
          /\ LongFlags'[Len(LongFlags')].Name = longName
          /\ LongFlags'[Len(LongFlags')].Prefix = <<"-", "-">>

\* C20: each AutoHelp, Int8Var or BoolVar call appends exactly one short
\* descriptor if and only if shortName is not zero and exactly one long
\* descriptor if and only if longName is not empty (nothing when both are
\* empty), with the prefixes "-" and "--", and leaves the descriptors
\* registered before, and their order, unchanged.
C20_RegistrationAppends ==
    [][\A s \in ShortNameInputs, l \in LongNameInputs :
          /\ AutoHelp(s, l) => RegistrationEffect(s, l)
          /\ Int8Var("n1", s, l) => RegistrationEffect(s, l)
          /\ BoolVar("b1", s, l) => RegistrationEffect(s, l)]_vars

\* AutoHelp('h', "help"), Int8Var with no name at all, BoolVar('v', "")
C20_Witness ==
    /\ stage = 5
    /\ Len(ShortFlags) = 2 /\ Len(LongFlags) = 1
    /\ ShortFlags[1].Name = "h" /\ ShortFlags[2].Name = "v"
    /\ ShortFlags[2].Value = Value("ValueBool", "b1")
    /\ LongFlags[1].Name = HelpName

\* the registered descriptors bound to a ValueAutoHelp
ShortSentinels == {i \in 1..Len(ShortFlags) : ShortFlags[i].Value.kind = "ValueAutoHelp"}

LongSentinels == {j \in 1..Len(LongFlags) : LongFlags[j].Value.kind = "ValueAutoHelp"}

\* the invocation the hint line names: the first long help flag if there is
\* one, else the first short help flag
HintedInvocation ==
    IF LongSentinels # {}
    THEN LET j == CHOOSE k \in LongSentinels : \A n \in LongSentinels : k <= n
         IN ProgramName \o <<" ">> \o LongFlags[j].Prefix \o LongFlags[j].Name
    ELSE LET i == CHOOSE k \in ShortSentinels : \A n \in ShortSentinels : k <= n
         IN ProgramName \o <<" ">> \o ShortFlags[i].Prefix \o <<ShortFlags[i].Name>>

\* C18 as stated: PrintUsageError prints the hint line after the error line
\* when exactly one help-sentinel descriptor is registered and prints no
\* hint line when none, or two or more, are registered.
C18_HintOnlyWithOneHelpFlag ==
    Stderr # <<>> =>
        /\ Stderr[1].line = "error"
        /\ Cardinality(ShortSentinels) + Cardinality(LongSentinels) = 1 =>
              (Len(Stderr) = 2 /\ Stderr[2].line = "hint")
        /\ Cardinality(ShortSentinels) + Cardinality(LongSentinels) # 1 =>
              Len(Stderr) = 1

\* C18: PrintUsageError prints the error line and then, when at least one
\* help-sentinel descriptor is registered, the hint line naming the first
\* long help flag, or the first short help flag when no long one is
\* registered; it prints no hint line when none is registered.
C18_HintWithAnyHelpFlag ==
    Stderr # <<>> =>
        /\ Stderr[1] = Line("error", call.err)
        /\ (ShortSentinels \cup LongSentinels) # {} =>
              (Len(Stderr) = 2 /\ Stderr[2] = Line("hint", HintedInvocation))
        /\ (ShortSentinels \cup LongSentinels) = {} => Len(Stderr) = 1

\* AutoHelp('h', "help") registers two help flags and the hint names --help
C18_Witness ==
    /\ Cardinality(ShortSentinels) = 1 /\ Cardinality(LongSentinels) = 1
    /\ call.err = ErrUnknownOption(A_x)
    /\ Len(Stderr) = 2
    /\ Stderr[2].text = ProgramName \o <<" ", "-", "-">> \o HelpName

(***************************************************************************)
(* A tool with the flags -c/--all (Bool), -v (Bool), -f (String) and the   *)
(* optional-value flag +o, parsing short vectors of clusters, bare and     *)
(* "="-joined long flags and a positional argument.                        *)
(***************************************************************************)
MaxFlagArgs == 2

AllName == <<"a", "l", "l">>

T_cvf == <<"-", "c", "v", "f">>

T_fc == <<"-", "f", "c">>

T_c == <<"-", "c">>

T_FILE == <<"F", "I", "L", "E">>

T_o == <<"+", "o">>

T_oF == <<"+", "o", "=", "F">>

T_allFalse == <<"-", "-", "a", "l", "l", "=", "f", "a", "l", "s", "e">>

T_allNope == <<"-", "-", "a", "l", "l", "=", "n", "o", "p", "e">>

FlagTokens == {T_cvf, T_fc, T_c, T_FILE, T_o, T_oF, T_allFalse, T_allNope}

FlagArgVectors == UNION {[1..n -> FlagTokens] : n \in 0..MaxFlagArgs}

\* the descriptor of "+o": built by hand, its default captured from the
\* variable when it is built
OptionalFlag ==
    LongFlag(<<>>, <<"[", "=", "S", "T", "R", "I", "N", "G", "]">>,
             String(Value("ValueString", "s2"), InitialMem),
             "LongFlagMakeOptionWithOptionalValue", <<"o">>, <<"+">>,
             Value("ValueString", "s2"))

\* the descriptor of "-v": built by hand and appended by the caller
VerboseFlag == NewShortFlagBool(Value("ValueBool", "b2"), "v", <<>>)

NextFlags ==
    \/ AppendLongFlag(OptionalFlag)
    \/ AppendShortFlag(VerboseFlag)
    \/ BoolVar("b1", "c", AllName)
    \/ \E bounds \in {<<1, MathMaxInt>>, <<0, 1>>} :
          SetMinMaxPositionalArgs(bounds[1], bounds[2])
    \/ StringVar("s1", "f", <<>>)
    \/ \E args \in FlagArgVectors : ParseCall(args)
    \/ HandleError
    \/ \E outcome \in ExitOutcomes : ExitCall(outcome)

SpecFlags == Init /\ [][NextFlags]_vars

(***************************************************************************)
(* One variable behind the short and the long name of a registration.      *)
(***************************************************************************)
\* the memories the call went through: after each Set and at its end
MemoriesSeen == {mem} \cup {call.sets[k].mem : k \in DOMAIN call.sets}

\* the memory a Set call started from
MemBefore(k) == IF k = 1 THEN InitialMem ELSE call.sets[k - 1].mem

\* C19: the short and the long descriptor that BoolVar registers together
\* are bound to the caller's variable: after every Set made through either
\* name, successful or failed, both values render the same String(), which is
\* the text of the variable; a successful Set through either name stores the
\* parsed value there (the empty text of a bare "-c" stands for true) and a
\* failed one leaves it as it was
C19_PairSharesVariable ==
    \A i \in DOMAIN ShortFlags, j \in DOMAIN LongFlags :
        (ShortFlags[i].Name = "c" /\ LongFlags[j].Name = AllName) =>
            /\ \A m \in MemoriesSeen :
                   /\ String(ShortFlags[i].Value, m) = String(LongFlags[j].Value, m)
                   /\ String(ShortFlags[i].Value, m) = FormatBool(m["b1"])
            /\ \A k \in DOMAIN call.sets :
                   call.sets[k].name \in {<<"c">>, AllName} =>
                       call.sets[k].mem["b1"] =
                           IF call.sets[k].err = Nil
                           THEN call.sets[k].raw \in BoolTrueLiterals \cup {<<>>}
                           ELSE MemBefore(k)["b1"]

\* "-c" set the variable through the short name and a failed "--all=nope"
\* went through the long name
C19_Witness ==
    /\ call.args = <<T_c, T_allNope>>
    /\ Len(call.sets) = 2
    /\ call.sets[1].name = <<"c">> /\ call.sets[1].err = Nil
    /\ call.sets[2].name = AllName /\ call.sets[2].err # Nil
    /\ mem["b1"] = TRUE
    /\ \E i \in DOMAIN ShortFlags, j \in DOMAIN LongFlags :
           /\ ShortFlags[i].Name = "c" /\ LongFlags[j].Name = AllName
           /\ String(ShortFlags[i].Value, mem) = <<"t", "r", "u", "e">>
           /\ String(LongFlags[j].Value, mem) = <<"t", "r", "u", "e">>

(***************************************************************************)
(* The optional-value long flag "+o".                                      *)
(***************************************************************************)
IsFileToken(tok) == tok = T_FILE

IsOptionalToken(tok) == tok \in {T_o, T_oF}

\* the text an occurrence of "+o" is expected to store: the default "d" of
\* the descriptor for the bare form, the text after "=" for the joined form
OptionalText(tok) == IF tok = T_o THEN <<"d">> ELSE <<"F">>

OptionalRegistered == \E j \in DOMAIN LongFlags : LongFlags[j] = OptionalFlag

\* C14: with the optional-value flag "+o" registered, in every successful
\* parse of bare "+o", "+o=F" and FILE tokens each bare occurrence sets the
\* bound variable to the descriptor's default, each "="-joined occurrence sets
\* it to the text after "=", and every FILE token, also one that directly
\* follows a bare "+o", is a positional argument
C14_OptionalValueFlag ==
    (/\ OptionalRegistered
     /\ call.tokenized /\ call.err = Nil
     /\ \A p \in DOMAIN call.args : call.args[p] \in {T_o, T_oF, T_FILE}) =>
        LET occurrences == SelectSeq(call.args, IsOptionalToken)
        IN /\ positionals = SelectSeq(call.args, IsFileToken)
           /\ Len(call.sets) = Len(occurrences)
           /\ \A k \in DOMAIN call.sets :
                  /\ call.sets[k].name = <<"o">>
                  /\ call.sets[k].raw = OptionalText(occurrences[k])
                  /\ call.sets[k].mem["s2"] = OptionalText(occurrences[k])
           /\ mem["s2"] = IF occurrences = <<>> THEN InitialMem["s2"]
                          ELSE OptionalText(occurrences[Len(occurrences)])

\* a bare "+o" followed by FILE: the default was stored and FILE stayed a
\* positional argument
C14_Witness ==
    /\ OptionalRegistered
    /\ call.args = <<T_o, T_FILE>>
    /\ call.tokenized /\ call.err = Nil
    /\ Len(call.sets) = 1 /\ call.sets[1].raw = OptionalFlag.DefaultValue
    /\ positionals = <<T_FILE>>
    /\ pc \in {"returned", "handle"}

(***************************************************************************)
(* Clusters of short flags.                                                *)
(***************************************************************************)
\* -c and -v are registered as booleans and -f as a flag taking a value
ClusterRegistered ==
    /\ \E i \in DOMAIN ShortFlags :
           /\ ShortFlags[i].Name = "c"
           /\ ShortFlags[i].MakeOption = "ShortFlagMakeOptionBool"
           /\ ShortFlags[i].Value = Value("ValueBool", "b1")
    /\ \E i \in DOMAIN ShortFlags :
           /\ ShortFlags[i].Name = "v"
           /\ ShortFlags[i].MakeOption = "ShortFlagMakeOptionBool"
           /\ ShortFlags[i].Value = Value("ValueBool", "b2")
    /\ \E i \in DOMAIN ShortFlags :
           /\ ShortFlags[i].Name = "f"
           /\ ShortFlags[i].MakeOption = "ShortFlagMakeOptionWithValue"
           /\ ShortFlags[i].Value = Value("ValueString", "s1")

\* C15: with -c and -v boolean and -f taking a value, ["-cvf", "FILE"] parses
\* (without error when no positional argument is required) to c = true,
\* v = true, f = "FILE" and no positional arguments: only the last flag of
\* the cluster takes the following token.
\* A value flag that is not last takes the rest of the cluster instead:
\* ["-fc", "FILE"] gives f = "c", leaves c unset and FILE positional
C15_ClusterOfShortFlags ==
    (ClusterRegistered /\ call.tokenized) =>
        /\ (call.args = <<T_cvf, T_FILE>> /\ MinPositionalArgs = 0) =>
               /\ call.err = Nil
               /\ mem["b1"] = TRUE /\ mem["b2"] = TRUE /\ mem["s1"] = T_FILE
               /\ positionals = <<>>
               /\ [k \in DOMAIN call.sets |-> call.sets[k].name]
                      = <<<<"c">>, <<"v">>, <<"f">>>>
        /\ (call.args = <<T_fc, T_FILE>> /\ call.err = Nil) =>
               /\ mem["b1"] = FALSE /\ mem["s1"] = <<"c">>
               /\ positionals = <<T_FILE>>

C15_Witness ==
    /\ ClusterRegistered
    /\ call.args = <<T_cvf, T_FILE>>
    /\ call.tokenized /\ call.done = 3
    /\ mem["b1"] = TRUE /\ mem["b2"] = TRUE /\ mem["s1"] = T_FILE
    /\ positionals = <<>>
    /\ pc = "returned" /\ call.ret = Nil

(***************************************************************************)
(* Bounds on the number of positional arguments.                           *)
(***************************************************************************)
\* C16: the bounds set on the FlagSet reach the tokenizer: a vector of n
\* positional arguments parses without error exactly when
\* MinPositionalArgs <= n <= MaxPositionalArgs and otherwise fails with the
\* too-few or too-many error naming the bound and n; with Min = 1 and
\* Max = math.MaxInt the empty vector fails with "expected at least 1, got 0",
\* and with the default bounds (0, 0) every positional argument is an error
C16_PositionalBounds ==
    (call.tokenized /\ \A p \in DOMAIN call.args : call.args[p] = T_FILE) =>
        LET n == Len(call.args)
        IN /\ n < MinPositionalArgs =>
                  /\ call.err = ErrTooFewPositionalArguments(MinPositionalArgs, n)
                  /\ positionals = <<>>
           /\ n > MaxPositionalArgs =>
                  /\ call.err = ErrTooManyPositionalArguments(MaxPositionalArgs, n)
                  /\ positionals = <<>>
           /\ (MinPositionalArgs <= n /\ n <= MaxPositionalArgs) =>
                  call.err = Nil /\ positionals = call.args
           /\ (MinPositionalArgs = 1 /\ MaxPositionalArgs = MathMaxInt /\ n = 0) =>
                  call.err = Err("too few positional arguments", "flagparser",
                                 <<"1", "0">>)
           /\ (MinPositionalArgs = 0 /\ MaxPositionalArgs = 0 /\ n > 0) =>
                  call.err # Nil
           /\ (pc = "returned" /\ ErrorHandling = ContinueOnError) =>
                  call.ret = call.err

\* Min = 1, Max = math.MaxInt and no argument at all: Parse returned the error
C16_Witness ==
    /\ MinPositionalArgs = 1 /\ MaxPositionalArgs = MathMaxInt
    /\ call.tokenized /\ call.args = <<>>
    /\ pc = "returned"
    /\ call.ret = ErrTooFewPositionalArguments(1, 0)

(***************************************************************************)
(* The usage screen.  The registry is any sequence of at most              *)
(* MaxUsageFlags short and as many long descriptors taken from the ones    *)
(* below; the caller's string variable holds "d" or "e" when the screen is *)
(* printed.                                                                *)
(***************************************************************************)
MaxUsageFlags == 2

H_verbose ==
    <<"V", "e", "r", "b", "o", "s", "e", ".">>

H_file ==
    <<"W", "r", "i", "t", "e", " ", Backquote, "F", "I", "L", "E", Backquote,
      ".">>

H_default ==
    <<"D", "e", "f", "a", "u", "l", "t", ":", " ", "@", "D", "E", "F", "A",
      "U", "L", "T", "_", "V", "A", "L", "U", "E", "@", ".">>

H_d ==
    <<"D", "e", "f", "a", "u", "l", "t", ":", " ", "d", ".">>

N_verbose ==
    <<"v", "e", "r", "b", "o", "s", "e">>

N_quiet ==
    <<"q", "u", "i", "e", "t">>

N_file ==
    <<"f", "i", "l", "e">>

N_other ==
    <<"o", "t", "h", "e", "r">>

UsageShortInputs ==
    {NewShortFlagBool(Value("ValueBool", "b1"), "v", <<H_verbose>>),
     NewShortFlagBool(Value("ValueBool", "b2"), "q", <<>>),
     NewShortFlagString(Value("ValueString", "s1"), "f", <<H_file>>),
     NewShortFlagString(Value("ValueString", "s2"), "d", <<H_default>>)}

UsageLongInputs ==
    {NewLongFlagBool(Value("ValueBool", "b1"), N_verbose, <<H_verbose>>),
     NewLongFlagBool(Value("ValueBool", "b2"), N_quiet, <<>>),
     NewLongFlagString(Value("ValueString", "s1"), N_file, <<H_file>>),
     NewLongFlagString(Value("ValueString", "s1"), N_other, <<H_d>>)}

UsageRegistries(inputs) == UNION {[1..n -> inputs] : n \in 0..MaxUsageFlags}

InitUsage ==
    /\ \E handling \in ErrorHandlings : ErrorHandling = handling
    /\ DisablePermute = FALSE
    /\ MinPositionalArgs = 0
    /\ MaxPositionalArgs = 0
    /\ ShortFlags \in UsageRegistries(UsageShortInputs)
    /\ LongFlags \in UsageRegistries(UsageLongInputs)
    /\ Stdout = <<>>
    /\ Stderr = <<>>
    /\ positionals = <<>>
    /\ mem \in {InitialMem, [InitialMem EXCEPT !["s2"] = <<"e">>]}
    /\ exitCalls = <<>>
    /\ pc = "config"
    /\ call = NoCall
    /\ stage = 1
    /\ probe = NoProbe
    /\ flags = <<>>

\* FlagSet.PrintUsageString(fs.Stdout)
PrintUsageStringCall ==
    /\ pc = "config"
    /\ Stdout' = Stdout \o PrintUsageString(ShortFlags, LongFlags, MinPositionalArgs,
                                           MaxPositionalArgs, mem)
    /\ pc' = "printed"
    /\ UNCHANGED <<flags, ShortFlags, LongFlags, ErrorHandling, DisablePermute,
                   MinPositionalArgs, MaxPositionalArgs, positionals, mem, Stderr,
                   exitCalls, call, stage, probe>>

NextUsage == PrintUsageStringCall

SpecUsage == InitUsage /\ [][NextUsage]_vars

\* the entries of the Flags section that was printed
PrintedFlags ==
    LET sections == Stdout[1].text
        at == FirstIndex([k \in DOMAIN sections |-> sections[k].div = "Flags"])
    IN IF at = 0 THEN <<>> ELSE sections[at].entries

\* the flags in scan order, before any merging
Scanned == UsageFlags(ShortFlags, LongFlags, mem)

\* the flags that are the first of their rendered description
Primaries(scanned) ==
    {i \in DOMAIN scanned :
        \A j \in 1..(i - 1) : scanned[j].description # scanned[i].description}

\* the members of a set of indices in increasing order
RECURSIVE Ascending(_)
Ascending(indices) ==
    IF indices = {} THEN <<>>
    ELSE LET least == CHOOSE i \in indices : \A j \in indices : i <= j
         IN <<least>> \o Ascending(indices \ {least})

\* the entry expected for the primary i: its synopsis, then the synopses of
\* the later flags of the same rendered description, on one indented line
ExpectedEntry(scanned, i) ==
    With(Ascending({j \in DOMAIN scanned :
                       j > i /\ scanned[j].description = scanned[i].description}),
         LAMBDA later :
            [synopsis |-> <<"\n", " ", " ", " ", " ">> \o
                          Join(<<scanned[i].synopsis>> \o
                                   [k \in DOMAIN later |-> scanned[later[k]].synopsis],
                               <<",", " ">>) \o <<"\n">>,
             description |-> scanned[i].description])

ExpectedEntries(scanned, primaries) ==
    With(Ascending(primaries), LAMBDA order :
        [k \in DOMAIN order |-> ExpectedEntry(scanned, order[k])])

\* C17 as stated: for each distinct rendered description, the empty one
\* included, the first flag scanned is printed once at its own position with
\* the synopses of the later flags of the same description joined by ", ",
\* and no alias is printed on its own
C17_AliasMergeEveryDescription ==
    pc = "printed" =>
        With(Scanned, LAMBDA scanned :
            PrintedFlags = ExpectedEntries(scanned, Primaries(scanned)))

\* C17, amended: for each distinct non-empty rendered description the first
\* flag scanned is printed once at its own position with the synopses of the
\* later flags of the same description joined by ", ", no alias is printed on
\* its own, and a flag whose rendered description is empty is not printed
C17_AliasMerge ==
    pc = "printed" =>
        With(Scanned, LAMBDA scanned :
            PrintedFlags =
                ExpectedEntries(scanned, {i \in Primaries(scanned) :
                                             scanned[i].description # <<>>}))

\* -v and -d STRING, then --verbose[=true|false] and --other STRING, whose
\* description reads like the rendered one of -d: two entries, each with its
\* alias
C17_Witness ==
    /\ pc = "printed"
    /\ Len(ShortFlags) = 2 /\ ShortFlags[1].Name = "v" /\ ShortFlags[2].Name = "d"
    /\ Len(LongFlags) = 2 /\ LongFlags[1].Name = N_verbose
    /\ LongFlags[2].Name = N_other
    /\ Len(PrintedFlags) = 2
    /\ PrintedFlags[1].synopsis =
           <<"\n", " ", " ", " ", " ", "-", "v", ",", " ", "-", "-", "v",
             "e", "r", "b", "o", "s", "e", "[", "=", "t", "r", "u", "e", "|",
             "f", "a", "l", "s", "e", "]", "\n">>
    /\ PrintedFlags[1].description =
           <<"\n", " ", " ", " ", " ", " ", " ", " ", " ", "V", "e", "r",
             "b", "o", "s", "e", ".", "\n">>
    /\ PrintedFlags[2].synopsis =
           <<"\n", " ", " ", " ", " ", "-", "d", " ", "S", "T", "R", "I",
             "N", "G", ",", " ", "-", "-", "o", "t", "h", "e", "r", " ", "S",
             "T", "R", "I", "N", "G", "\n">>
    /\ PrintedFlags[2].description =
           <<"\n", " ", " ", " ", " ", " ", " ", " ", " ", "D", "e", "f",
             "a", "u", "l", "t", ":", " ", "d", ".", "\n">>

(***************************************************************************)
(* FlagSet.AddFlag of the revision with unified descriptors, where one     *)
(* Flag carries the short and the long identity and FlagSet.flags is the   *)
(* registry.                                                               *)
(***************************************************************************)
MaxFlags == 3

\* Flag literal: the fields that make the identities, the others zero
Flag(longName, longPrefix, shortName, shortPrefix, makeOptions, value) ==
    [Description |-> <<>>, LongArgumentName |-> <<>>, LongName |-> longName,
     LongPrefix |-> longPrefix, MakeOptions |-> makeOptions,
     ShortArgumentName |-> <<>>, ShortName |-> shortName,
     ShortPrefix |-> shortPrefix, Value |-> value]

\* &Flag{}
EmptyFlag == Flag(<<>>, <<>>, NUL, <<>>, "nil", Value("nil", ""))

FlagInputs ==
    {EmptyFlag,
     Flag(<<>>, DefaultLongPrefix, NUL, DefaultShortPrefix,
          "FlagMakeOptionsAutoHelp", Value("ValueAutoHelp", "")),
     Flag(HelpName, <<>>, "h", <<>>,
          "FlagMakeOptionsAutoHelp", Value("ValueAutoHelp", "")),
     Flag(<<>>, DefaultLongPrefix, "h", DefaultShortPrefix,
          "FlagMakeOptionsAutoHelp", Value("ValueAutoHelp", "")),
     Flag(HelpName, DefaultLongPrefix, NUL, DefaultShortPrefix,
          "FlagMakeOptionsAutoHelp", Value("ValueAutoHelp", "")),
     Flag(HelpName, DefaultLongPrefix, "h", DefaultShortPrefix,
          "FlagMakeOptionsAutoHelp", Value("ValueAutoHelp", ""))}

\* the tests parse makes before it enters a descriptor in its lookup
HasShortIdentity(fx) == fx.ShortPrefix # <<>> /\ fx.ShortName # NUL

HasLongIdentity(fx) == fx.LongPrefix # <<>> /\ fx.LongName # <<>>

\* FlagSet.AddFlag(fx)
AddFlag(fx) ==
    /\ pc = "config"
    /\ Len(flags) < MaxFlags
    /\ flags' = Append(flags, fx)
    /\ UNCHANGED <<ShortFlags, LongFlags, ErrorHandling, MinPositionalArgs,
                   MaxPositionalArgs, DisablePermute, positionals, mem, Stdout,
                   Stderr, exitCalls, pc, call, stage, probe>>

NextAddFlag == \E fx \in FlagInputs : AddFlag(fx)

SpecAddFlag == Init /\ [][NextAddFlag]_vars

\* C22: AddFlag of a descriptor with neither a usable short identity nor a
\* usable long identity panics inside AddFlag under every policy and leaves
\* the registry's list unchanged: no AddFlag step that returns appends such a
\* descriptor.
C22_AddInvalidFlagPanics ==
    [][\A fx \in FlagInputs :
          (AddFlag(fx) /\ ~HasShortIdentity(fx) /\ ~HasLongIdentity(fx))
              => (pc' = "panicked" /\ flags' = flags)]_vars

\* AddFlag(&Flag{}) has returned and the empty descriptor is in the list
C22_Witness ==
    /\ pc = "config"
    /\ flags = <<EmptyFlag>>

(***************************************************************************)
(* The positional-arguments hint of the usage line, for a printer with and *)
(* without the caller's override and for bounds on both sides of zero.     *)
(***************************************************************************)
HintMinArgs == {-1, 0, 1, 2}

HintMaxArgs == {-1, 0, 1, 2, 3}

HintOverrides == {<<"U", "R", "L">>, <<"F", "I", "L", "E", ".", ".", ".">>}

NoHintProbe == [up |-> NewDefaultUsagePrinter, usage |-> <<>>, minArgs |-> 0,
                maxArgs |-> 0, output |-> <<>>, n |-> 0]

InitHint ==
    /\ NewFlagSet(ContinueOnError)
    /\ mem = InitialMem
    /\ exitCalls = <<>>
    /\ pc = "config"
    /\ call = NoCall
    /\ stage = 1
    /\ probe = NoHintProbe

\* usage.PositionalArgumentsUsage = text
SetPositionalArgumentsUsage(text) ==
    /\ pc = "config"
    /\ probe.up.PositionalArgumentsUsage = <<>>
    /\ probe' = [probe EXCEPT !.up.PositionalArgumentsUsage = text]
    /\ UNCHANGED <<flags, ShortFlags, LongFlags, ErrorHandling, MinPositionalArgs,
                   MaxPositionalArgs, DisablePermute, positionals, mem, Stdout,
                   Stderr, exitCalls, pc, call, stage>>

\* usage.positionalArgumentsUsage(fs)
PositionalArgumentsUsageCall ==
    /\ pc = "config"
    /\ probe.n < MaxSets
    /\ probe' = [probe EXCEPT
                    !.usage = probe.up.PositionalArgumentsUsage,
                    !.minArgs = MinPositionalArgs,
                    !.maxArgs = MaxPositionalArgs,
                    !.output = positionalArgumentsUsage(probe.up, MinPositionalArgs,
                                                        MaxPositionalArgs),
                    !.n = @ + 1]
    /\ UNCHANGED <<flags, ShortFlags, LongFlags, ErrorHandling, MinPositionalArgs,
                   MaxPositionalArgs, DisablePermute, positionals, mem, Stdout,
                   Stderr, exitCalls, pc, call, stage>>

NextHint ==
    \/ \E minArgs \in HintMinArgs, maxArgs \in HintMaxArgs :
          SetMinMaxPositionalArgs(minArgs, maxArgs)
    \/ \E text \in HintOverrides : SetPositionalArgumentsUsage(text)
    \/ PositionalArgumentsUsageCall

SpecHint == InitHint /\ [][NextHint]_vars

\* the hint the statement gives for a pair of bounds, no hint being the
\* case "noHint" of the bounds
HintTable(override, minArgs, maxArgs, noHint) ==
    CASE noHint -> <<>>
      [] ~noHint /\ override # <<>> -> <<" ">> \o override
      [] ~noHint /\ override = <<>> /\ minArgs = 0 /\ maxArgs = 1 ->
             <<" ", "[", "a", "r", "g", "]">>
      [] ~noHint /\ override = <<>> /\ minArgs = 1 /\ maxArgs = 1 ->
             <<" ", "a", "r", "g">>
      [] ~noHint /\ override = <<>> /\ minArgs = 0 /\ maxArgs > 1 ->
             <<" ", "[", "a", "r", "g", " ", ".", ".", ".", "]">>
      [] OTHER ->
             <<" ", "a", "r", "g", " ", "[", "a", "r", "g", " ", ".", ".", ".", "]">>

D_file ==
    <<"W", "r", "i", "t", "e", " ", Backquote, "F", "I", "L", "E",
    Backquote, ".">>

D_two ==
    <<"F", "r", "o", "m", " ", Backquote, "a", Backquote, " ", "t", "o",
    " ", Backquote, "B", "-", "1", Backquote, " ", "o", "r", " ", Backquote,
    "C", "_", "2", Backquote, ".">>

D_none ==
    <<"B", "e", " ", "v", "e", "r", "b", "o", "s", "e", ".">>

D_open ==
    <<"W", "r", "i", "t", "e", " ", Backquote, "F", "I", "L", "E", ".">>

D_lower ==
    <<"W", "r", "i", "t", "e", " ", Backquote, "f", "i", "l", "e",
    Backquote, ".">>

D_empty ==
    <<"W", "r", "i", "t", "e", " ", Backquote, Backquote, ".">>

D_tail ==
    <<Backquote, "a", Backquote, "X", "9", Backquote>>

ArgNameDescriptions ==
    {<<>>, <<D_file>>, <<D_two>>, <<D_none>>, <<D_none, D_file>>, <<D_open>>,
     <<D_lower>>, <<D_empty>>, <<D_tail>>}

ArgNameDefaults ==
    {<<>>, <<" ", "S", "T", "R", "I", "N", "G">>,
     <<"[", "=", "t", "r", "u", "e", "|", "f", "a", "l", "s", "e", "]">>}

ArgNameShortInputs ==
    {ShortFlag(description, argumentName, "ShortFlagMakeOptionWithValue", "f",
               DefaultShortPrefix, Value("ValueString", "s1")) :
        description \in ArgNameDescriptions, argumentName \in ArgNameDefaults}

ArgNameLongInputs ==
    {LongFlag(description, argumentName, <<>>, "LongFlagMakeOptionWithRequiredValue",
              N_file, DefaultLongPrefix, Value("ValueString", "s1")) :
        description \in ArgNameDescriptions, argumentName \in ArgNameDefaults}

NoUsageProbe == [fx |-> SentinelAsBoolFlag, short |-> TRUE, output |-> <<>>, n |-> 0]

InitArgName ==
    /\ NewFlagSet(ContinueOnError)
    /\ mem = InitialMem
    /\ exitCalls = <<>>
    /\ pc = "config"
    /\ call = NoCall
    /\ stage = 1
    /\ probe = NoUsageProbe

\* fs.ShortFlags[i].Usage()
ShortFlagUsageCall(i) ==
    /\ pc = "config"
    /\ probe.n < MaxSets
    /\ probe' = [fx |-> ShortFlags[i], short |-> TRUE,
                 output |-> ShortFlagUsage(ShortFlags[i]), n |-> probe.n + 1]
    /\ UNCHANGED <<flags, ShortFlags, LongFlags, ErrorHandling, MinPositionalArgs,
                   MaxPositionalArgs, DisablePermute, positionals, mem, Stdout,
                   Stderr, exitCalls, pc, call, stage>>

\* fs.LongFlags[i].Usage()
LongFlagUsageCall(i) ==
    /\ pc = "config"
    /\ probe.n < MaxSets
    /\ probe' = [fx |-> LongFlags[i], short |-> FALSE,
                 output |-> LongFlagUsage(LongFlags[i]), n |-> probe.n + 1]
    /\ UNCHANGED <<flags, ShortFlags, LongFlags, ErrorHandling, MinPositionalArgs,
                   MaxPositionalArgs, DisablePermute, positionals, mem, Stdout,
                   Stderr, exitCalls, pc, call, stage>>

NextArgName ==
    \/ \E fx \in ArgNameShortInputs : AppendShortFlag(fx)
    \/ \E fx \in ArgNameLongInputs : AppendLongFlag(fx)
    \/ \E i \in DOMAIN ShortFlags : ShortFlagUsageCall(i)
    \/ \E i \in DOMAIN LongFlags : LongFlagUsageCall(i)

SpecArgName == InitArgName /\ [][NextArgName]_vars

\* the quoted tokens of a paragraph: a backquote at i, a backquote at j and
\* one or more characters of A-Z, 0-9, "_" and "-" between them
QuotedTokens(s) ==
    {ij \in (1..Len(s)) \X (1..Len(s)) :
        /\ ij[1] + 1 < ij[2]
        /\ s[ij[1]] = Backquote
        /\ s[ij[2]] = Backquote
        /\ \A k \in (ij[1] + 1)..(ij[2] - 1) : s[k] \in ArgumentNameChars}

\* the displayed argument name the statement gives
DisplayedArgumentName(description, defaultValue) ==
    IF /\ Len(description) >= 1
       /\ defaultValue # <<>> /\ defaultValue[1] = " "
       /\ QuotedTokens(description[1]) # {}
    THEN LET first == CHOOSE ij \in QuotedTokens(description[1]) :
                          \A other \in QuotedTokens(description[1]) : ij[1] <= other[1]
         IN <<" ">> \o SubSeq(description[1], first[1] + 1, first[2] - 1)
    ELSE defaultValue

\* the name a synopsis starts with
SynopsisName(fx, short) == IF short THEN fx.Prefix \o <<fx.Name>> ELSE fx.Prefix \o fx.Name

MaxParses == 2

ArgsTokens == {T_c, T_FILE, R_7, T_allNope}

ArgsVectors == UNION {[1..n -> ArgsTokens] : n \in 0..MaxFlagArgs}

NoArgsProbe == [dispatched |-> <<>>, mem |-> InitialMem, n |-> 0]

InitArgs ==
    /\ \E handling \in ErrorHandlings : NewFlagSet(handling)
    /\ mem = InitialMem
    /\ exitCalls = <<>>
    /\ pc = "config"
    /\ call = NoCall
    /\ stage = 1
    /\ probe = NoArgsProbe

\* the positional arguments the loop of parse has dispatched in this call
DispatchedPositionals == PositionalValues(SubSeq(call.results, 1, call.done))

\* Parse has returned to its caller, which goes on and may call it again
ParseReturned ==
    /\ pc = "returned"
    /\ probe.n + 1 < MaxParses
    /\ probe' = [dispatched |-> probe.dispatched \o DispatchedPositionals,
                 mem |-> mem, n |-> probe.n + 1]
    /\ call' = NoCall
    /\ pc' = "config"
    /\ UNCHANGED <<flags, ShortFlags, LongFlags, ErrorHandling, MinPositionalArgs,
                   MaxPositionalArgs, DisablePermute, positionals, mem, Stdout,
                   Stderr, exitCalls, stage>>

NextArgs ==
    \/ BoolVar("b1", "c", AllName)
    \/ \E bounds \in {<<1, MathMaxInt>>, <<0, 1>>} :
          SetMinMaxPositionalArgs(bounds[1], bounds[2])
    \/ \E args \in ArgsVectors : ParseCall(args)
    \/ HandleError
    \/ \E outcome \in ExitOutcomes : ExitCall(outcome)
    \/ ParseReturned

SpecArgs == InitArgs /\ [][NextArgs]_vars

\* C25: Args() is append-only: after one successful Parse it holds exactly the
\* tokenizer's positional results in order, and across any sequence of Parse
\* calls it is the concatenation, in call order, of the positional arguments
\* each call dispatched.
C25_ArgsAppendOnly ==
    /\ (pc = "config" \/ ~call.tokenized) => positionals = probe.dispatched
    /\ (pc # "config" /\ call.tokenized) =>
           positionals = probe.dispatched \o DispatchedPositionals
    /\ (pc = "returned" /\ probe.n = 0 /\ call.err = Nil) =>
           positionals = PositionalValues(call.results)

\* a second Parse has returned and added two positional arguments to the one
\* of the first
C25_Witness ==
    /\ pc = "returned"
    /\ probe.n = 1
    /\ probe.dispatched = <<T_FILE>>
    /\ call.err = Nil
    /\ positionals = <<T_FILE, R_7, T_FILE>>

(***************************************************************************)
(* Set and String together: a value of a scalar type or a string list, set *)
(* from strings and from its own canonical text.                           *)
(***************************************************************************)
R_1500ns == <<"1", "5", "0", "0", "n", "s">>

R_250ms == <<"2", "5", "0", "m", "s">>

StringRaws == RawUniverse \cup {R_1500ns, R_250ms}

ScalarKinds == ValueKinds \ {"ValueAutoHelp", "ValueFloat64", "ValueStringSlice"}

\* what the caller's variable holds when the value is constructed
InitialValues(kind) ==
    IF kind = "ValueStringSlice" THEN {<<>>, <<R_hello>>} ELSE {ZeroOf(kind)}

InitString ==
    /\ NewFlagSet(ContinueOnError)
    /\ \E kind \in ScalarKinds \cup {"ValueStringSlice"} :
       \E initial \in InitialValues(kind) :
          /\ mem = [vp \in {"x"} |-> initial]
          /\ probe = [value |-> Value(kind, "x"), raw |-> <<>>, err |-> Nil,
                      before |-> [vp \in {"x"} |-> initial], n |-> 0]
    /\ exitCalls = <<>>
    /\ pc = "value"
    /\ call = NoCall
    /\ stage = 1

\* v.Set(v.String())
SetStringCall == \E raw \in {String(probe.value, mem)} : ValueSetCall(raw)

NextString ==
    \/ \E raw \in StringRaws : ValueSetCall(raw)
    \/ SetStringCall

SpecString == InitString /\ [][NextString]_vars

\* C26: Set of a string list never fails and appends its argument, so that
\* after Set(a1), ..., Set(an) the list is what it was followed by a1, ..., an;
\* String() is the elements joined by commas.
C26_StringSliceAppends ==
    (probe.n > 0 /\ probe.value.kind = "ValueStringSlice") =>
        /\ probe.err = Nil
        /\ mem["x"] = Append(probe.before["x"], probe.raw)
        /\ String(probe.value, mem) =
               IF probe.before["x"] = <<>> THEN probe.raw
               ELSE String(probe.value, probe.before) \o <<",">> \o probe.raw

\* a list that held "hello" has been set twice, the second time with a string
\* that is no number
C26_Witness ==
    /\ probe.n = 2
    /\ probe.value.kind = "ValueStringSlice"
    /\ mem["x"] = <<R_hello, R_7, R_nope>>
    /\ String(probe.value, mem) =
           <<"h", "e", "l", "l", "o", ",", "7", ",", "n", "o", "p", "e">>

\* C21: for every scalar type (bool, the signed and unsigned integers of each
\* width, duration, string) and every value of the variable, Set(String())
\* succeeds and leaves the variable unchanged; for the string list
\* Set(String()) appends one element and so changes the variable.
C21_SetStringRoundTrip ==
    (probe.n > 0 /\ probe.raw = String(probe.value, probe.before)) =>
        /\ probe.err = Nil
        /\ probe.value.kind \in ScalarKinds => mem = probe.before
        /\ probe.value.kind = "ValueStringSlice" =>
               /\ mem["x"] = Append(probe.before["x"], probe.raw)
               /\ mem # probe.before

\* a duration of one microsecond and a half has been set from its own text
C21_Witness ==
    /\ probe.n = 2
    /\ probe.value.kind = "ValueDuration"
    /\ probe.raw = <<"1", ".", "5", Micro, "s">>
    /\ probe.err = Nil
    /\ mem = probe.before

(***************************************************************************)
(* HelpInvocation on registries with none, one or several descriptors      *)
(* bound to the help sentinel, among descriptors bound to other values.    *)
(***************************************************************************)
N_usage == <<"u", "s", "a", "g", "e">>

HelpShortInputs ==
    {NewShortFlagAutoHelp(Value("ValueAutoHelp", ""), "h", <<>>),
     ShortFlag(<<>>, <<>>, "ShortFlagMakeOptionAutoHelp", "?", <<"/">>,
               Value("ValueAutoHelp", "")),
     NewShortFlagBool(Value("ValueBool", "b1"), "v", <<>>)}

HelpLongInputs ==
    {NewLongFlagAutoHelp(Value("ValueAutoHelp", ""), HelpName, <<>>),
     LongFlag(<<>>, <<>>, <<>>, "LongFlagMakeOptionAutoHelp", N_usage, <<"+">>,
              Value("ValueAutoHelp", "")),
     NewLongFlagBool(Value("ValueBool", "b1"), N_verbose, <<>>)}

NoHelpProbe == [output |-> <<>>, n |-> 0]

InitHelp ==
    /\ \E handling \in ErrorHandlings : ErrorHandling = handling
    /\ DisablePermute = FALSE
    /\ MinPositionalArgs = 0
    /\ MaxPositionalArgs = 0
    /\ ShortFlags \in UsageRegistries(HelpShortInputs)
    /\ LongFlags \in UsageRegistries(HelpLongInputs)
    /\ Stdout = <<>>
    /\ Stderr = <<>>
    /\ positionals = <<>>
    /\ flags = <<>>
    /\ mem = InitialMem
    /\ exitCalls = <<>>
    /\ pc = "config"
    /\ call = NoCall
    /\ stage = 1
    /\ probe = NoHelpProbe

\* fs.HelpInvocation()
HelpInvocationCall ==
    /\ pc = "config"
    /\ probe.n < MaxSets
    /\ probe' = [output |-> HelpInvocation(ShortFlags, LongFlags), n |-> probe.n + 1]
    /\ UNCHANGED <<flags, ShortFlags, LongFlags, ErrorHandling, MinPositionalArgs,
                   MaxPositionalArgs, DisablePermute, positionals, mem, Stdout,
                   Stderr, exitCalls, pc, call, stage>>

NextHelp == HelpInvocationCall

SpecHelp == InitHelp /\ [][NextHelp]_vars

\* the positions of the descriptors of a list bound to the help sentinel
HelpPositions(list) == {i \in DOMAIN list : list[i].Value.kind = "ValueAutoHelp"}

\* the least element of a non-empty set of positions
Least(positions) == CHOOSE i \in positions : \A j \in positions : i <= j

\* C27: HelpInvocation returns the empty string exactly when no registered
\* descriptor is bound to the help sentinel; otherwise it returns the program
\* name, one space and the prefix and name of the first long help flag when
\* there is one, else of the first short help flag.
C27_HelpInvocation ==
    probe.n > 0 =>
        /\ probe.output = <<>> <=>
               (HelpPositions(ShortFlags) = {} /\ HelpPositions(LongFlags) = {})
        /\ HelpPositions(LongFlags) # {} =>
               probe.output = ProgramName \o <<" ">> \o
                   LongFlags[Least(HelpPositions(LongFlags))].Prefix \o
                   LongFlags[Least(HelpPositions(LongFlags))].Name
        /\ (HelpPositions(LongFlags) = {} /\ HelpPositions(ShortFlags) # {}) =>
               probe.output = ProgramName \o <<" ">> \o
                   ShortFlags[Least(HelpPositions(ShortFlags))].Prefix \o
                   <<ShortFlags[Least(HelpPositions(ShortFlags))].Name>>

\* a long help flag registered after a long flag of another type, and a short
\* help flag registered first: the long help flag is named
C27_Witness ==
    /\ probe.n > 0
    /\ Len(LongFlags) = 2 /\ Len(ShortFlags) = 2
    /\ LongFlags[1].Value.kind = "ValueBool"
    /\ LongFlags[2].Name = N_usage
    /\ ShortFlags[1].Value.kind = "ValueAutoHelp"
    /\ probe.output = <<"p", "r", "o", "g", " ", "+", "u", "s", "a", "g", "e">>

\* what the tokenizer returns for the arguments of the call in progress
TokenizerOutcome ==
    ParserParse(BuildOptions(ShortFlags, LongFlags).options, MinPositionalArgs,
                MaxPositionalArgs, OptionsArgumentsSeparator, DisablePermute,
                call.args)

\* C28: when the tokenizer returns an error, the outcome of parse is that same
\* error, no bound variable has been modified by the call and nothing has
\* been appended to Args().
C28_TokenizerErrorIsOutcome ==
    (pc # "config" /\ call.tokenized) =>
        \A t \in {TokenizerOutcome} :
            t.err # Nil =>
                /\ call.err = t.err
                /\ mem = probe.mem
                /\ positionals = probe.dispatched

\* a second Parse is refused by the tokenizer for its two positional
\* arguments, after a first one that set a variable and collected one
C28_Witness ==
    /\ pc = "returned"
    /\ probe.n = 1
    /\ probe.mem["b1"] = TRUE
    /\ probe.dispatched = <<T_FILE>>
    /\ call.args = <<T_FILE, T_FILE>>
    /\ call.err = TokenizerOutcome.err
    /\ call.err # Nil
    /\ mem = probe.mem
    /\ positionals = <<T_FILE>>

\* the names of the option results of the call in progress
OptionResultNames ==
    {call.results[k].Option.Name :
        k \in {n \in DOMAIN call.results : call.results[n].kind = "ValueOption"}}

RECURSIVE Split(_, _)
Split(s, sep) ==
    With(FirstIndex([i \in 1..Len(s) |-> HasPrefix(SubSeq(s, i, Len(s)), sep)]),
         LAMBDA at :
            IF at = 0 THEN <<s>>
            ELSE <<SubSeq(s, 1, at - 1)>> \o
                 Split(SubSeq(s, at + Len(sep), Len(s)), sep))

\* the synopses on the line of a printed entry: the line without its
\* indentation and its line breaks, cut at each ", "
EntrySynopses(entry) ==
    Split(SubSeq(entry.synopsis, Len(indent4) + 2, Len(entry.synopsis) - 1),
          <<",", " ">>)

\* the synopses of all the printed entries, in the order of the screen
RECURSIVE PrintedSynopses(_)
PrintedSynopses(entries) ==
    IF entries = <<>> THEN <<>>
    ELSE EntrySynopses(Head(entries)) \o PrintedSynopses(Tail(entries))

\* how many elements of a sequence satisfy a test
Count(seq, Test(_)) == Cardinality({k \in DOMAIN seq : Test(seq[k])})

\* C30 as stated: for every registry with at least one flag, the synopsis of
\* every registered descriptor, those without description paragraphs
\* included, appears in the Flags section once for each descriptor that has
\* that synopsis, as the primary synopsis of an entry or among its aliases.
C30_EverySynopsisPrinted ==
    (pc = "printed" /\ Len(ShortFlags) + Len(LongFlags) >= 1) =>
        With(Scanned, LAMBDA scanned :
        With(PrintedSynopses(PrintedFlags), LAMBDA printed :
            \A i \in DOMAIN scanned :
                Count(printed, LAMBDA p : p = scanned[i].synopsis) =
                    Count(scanned, LAMBDA u : u.synopsis = scanned[i].synopsis)))

\* C30, amended: the synopsis of a registered descriptor appears in the Flags
\* section once for each descriptor that has that synopsis and a rendered
\* description that is not empty; a descriptor without description
\* paragraphs contributes no occurrence.
C30_DocumentedSynopsisPrinted ==
    (pc = "printed" /\ Len(ShortFlags) + Len(LongFlags) >= 1) =>
        With(Scanned, LAMBDA scanned :
        With(PrintedSynopses(PrintedFlags), LAMBDA printed :
            \A i \in DOMAIN scanned :
                Count(printed, LAMBDA p : p = scanned[i].synopsis) =
                    Count(scanned, LAMBDA u : /\ u.synopsis = scanned[i].synopsis
                                              /\ u.description # <<>>)))

\* -q without a description and -f FILE with one, then --quiet without a
\* description: the screen lists -f FILE alone
C30_Witness ==
    /\ pc = "printed"
    /\ Len(ShortFlags) = 2 /\ ShortFlags[1].Name = "q" /\ ShortFlags[2].Name = "f"
    /\ Len(LongFlags) = 1 /\ LongFlags[1].Name = N_quiet
    /\ PrintedSynopses(PrintedFlags) = <<<<"-", "f", " ", "F", "I", "L", "E">>>>

====
